---- MODULE Spec2Model ----
(***************************************************************************)
(* Model of the PodcastGenerator pipelines:                                *)
(*   - step1/select.py : the selector and the selection-history store      *)
(*   - step2/fetch_fulltext.py : the full-text fallback chain              *)
(* Optional[T] values that the code only tests for truthiness are modelled *)
(* as strings with "" standing for None / empty; an Optional[float] is a   *)
(* sequence of length 0 (None) or 1.                                       *)
(***************************************************************************)
EXTENDS Integers, Sequences, FiniteSets, TLC

VARIABLES
    \* ---- step1: selector and history store ----
    articles,          \* the scored candidate list handed to select_top_article
    avoid_history,     \* the avoid_history argument (cli: not allow_repeat)
    history_file,      \* data/selection_history.json on disk
    io_faults,         \* whether the disk may fail transiently during this run
    cli_pc,            \* position of cli.fetch: "select" | "record" | "done" | "exit" | "crashed"
    selection_result,  \* what select_top_article returned (or that it raised)
    chosen,            \* per candidate index: how many runs selected it
    runs,              \* number of completed select calls
    \* ---- step2: resolve_fulltext ----
    settings,          \* the settings dict, the keys resolve_fulltext reads
    doi,               \* the doi argument ("" is None)
    pmid,              \* the pmid argument ("" is None)
    rpc,               \* the request about to be issued, or "start" | "returned" | "raised"
    stage,             \* the stage of resolve_fulltext that is running
    pmcid,             \* the pmcid argument of the innermost _fetch_pmc frame
    depth,             \* number of nested _fetch_pmc frames
    reentries,         \* re-entries of _fetch_pmc (line 120) in the running stage
    locals,            \* locals of the running stage function kept across requests
    result,            \* the FullTextResult returned (Absent: None)
    nreq,              \* requests issued so far by this call
    failure,           \* how the latest failed request failed ("" if none did)
    stage_log,         \* the stages run so far, each with whether it succeeded
    \* ---- a call of one of the list and text functions ----
    callee,            \* the function being executed ("" when none is)
    frame,             \* its arguments and local variables, by their names
    ret                \* what it returned (<<>> until it returns)

selvars == <<articles, avoid_history, history_file, io_faults, cli_pc,
             selection_result, chosen, runs>>

resvars == <<settings, doi, pmid, rpc, stage, pmcid, depth, reentries, locals,
             result, nreq, failure, stage_log>>

fnvars == <<callee, frame, ret>>

vars == <<selvars, resvars, fnvars>>

\* no list or text function is being called
FnIdle == callee = "" /\ frame = <<>> /\ ret = <<>>

----------------------------------------------------------------------------
(* Bounds of the model *)

MaxArticles == 2     \* longest candidate list
MaxHistory == 1      \* longest history list initially on disk
MaxRuns == 3         \* sequential runs over one candidate set
MaxLinks == 2        \* longest fullTextUrl list in a Europe PMC answer
RecursionLimit == 3  \* nested _fetch_pmc frames at which the interpreter's
                     \* recursion limit makes every further call fail

----------------------------------------------------------------------------
(* step1/model.py: Article, restricted to the fields select.py reads *)

DOIs == {"", "d1"}              \* "" is None (Optional[str] = None)
PMIDs == {"", "p1", "p2"}       \* pubmed.py:112 yields "" when the PMID is missing
Scores == {<<>>, <<0>>, <<1>>}  \* Optional[float]: <<>> is None

Article == [doi : DOIs, pmid : PMIDs, score : Scores]

ArticleLists == UNION {[1..n -> Article] : n \in 0..MaxArticles}

----------------------------------------------------------------------------
(* The history store.  The file is missing, unreadable (open fails or the  *)
(* content is not JSON), or holds a JSON value.  A JSON value is a list, a *)
(* non-list iterable (object or string: iterating yields keys/characters,  *)
(* none of which has .get), or a scalar (null, number, boolean).           *)
(* An item of a list is a dict (isdict) or anything else.                  *)

Junk == [isdict |-> FALSE, doi |-> "", pmid |-> ""]

Entry == [isdict : {TRUE}, doi : DOIs, pmid : PMIDs]

Items == Entry \cup {Junk}

ItemLists == UNION {[1..n -> Items] : n \in 0..MaxHistory}

JsonList(items) == [kind |-> "list", items |-> items]

EmptyList == JsonList(<<>>)

JsonValues ==
    {JsonList(items) : items \in ItemLists}
    \cup {[kind |-> "object", items |-> <<>>], [kind |-> "object", items |-> <<Junk>>]}
    \cup {[kind |-> "scalar", items |-> <<>>]}

Missing == [state |-> "missing", json |-> EmptyList]

Unreadable == [state |-> "unreadable", json |-> EmptyList]

FileOf(json) == [state |-> "json", json |-> json]

FileStates == {Missing, Unreadable} \cup {FileOf(j) : j \in JsonValues}

\* select.py:15-28.  fault: the open/parse of an existing file fails now.
load_selection_history(file, fault) ==
    IF file.state = "missing" THEN EmptyList
    ELSE IF file.state = "unreadable" \/ fault THEN EmptyList
    ELSE file.json

\* select.py:31-42.  outcome: "ok", "fail" (mkdir/open fails, file untouched)
\* or "truncated" (open(..., "w") emptied the file and the dump failed).
save_selection_history(file, history, outcome) ==
    CASE outcome = "ok" -> FileOf(history)
      [] outcome = "fail" -> file
      [] OTHER -> Unreadable

----------------------------------------------------------------------------
(* select.py:45-67 *)

ScanHistoryDoiOnly(article, items, i) ==
    IF \E k \in i..Len(items) : ~items[k].isdict THEN "raise"
    ELSE IF \E k \in i..Len(items) : article.doi # "" /\ items[k].doi = article.doi
         THEN "True" ELSE "False"

RECURSIVE ScanHistory(_, _, _)
ScanHistory(article, items, i) ==
    IF i > Len(items) THEN "False"
    ELSE IF ~items[i].isdict THEN "raise"          \* entry.get: AttributeError
    ELSE IF article.doi # "" /\ items[i].doi = article.doi THEN "True"
    ELSE IF article.pmid # "" /\ items[i].pmid = article.pmid THEN "True"
    ELSE ScanHistory(article, items, i + 1)

is_article_previously_selected(article, history) ==
    IF article.doi = "" /\ article.pmid = "" THEN "False"
    ELSE IF history.kind = "scalar" THEN "raise"   \* for entry in history: TypeError
    ELSE ScanHistory(article, history.items, 1)

----------------------------------------------------------------------------
(* select.py:87  sorted(articles, key=lambda x: x.score or 0.0, reverse=True) *)

ScoreKey(article) == IF article.score = <<>> THEN 0 ELSE article.score[1]

LastBest(arts, S) ==
    CHOOSE i \in S : \A j \in S :
        \/ ScoreKey(arts[j]) < ScoreKey(arts[i])
        \/ ScoreKey(arts[j]) = ScoreKey(arts[i]) /\ j <= i

\* the first index of S with the greatest key: sorted() is stable, also
\* with reverse=True
FirstBest(arts, S) ==
    CHOOSE i \in S : \A j \in S :
        \/ ScoreKey(arts[j]) < ScoreKey(arts[i])
        \/ ScoreKey(arts[j]) = ScoreKey(arts[i]) /\ i <= j

RECURSIVE SortFrom(_, _)
SortFrom(arts, S) ==
    IF S = {} THEN <<>>
    ELSE LET b == FirstBest(arts, S) IN <<b>> \o SortFrom(arts, S \ {b})

\* the sorted list, as indices into the input list
sorted_articles(arts) == SortFrom(arts, DOMAIN arts)

----------------------------------------------------------------------------
(* select.py:70-109.  The result is None, raised, or (article, rationale); *)
(* the article is given by its index in the input list, the rationale by   *)
(* the score it quotes and whether it ends with the previously-selected    *)
(* note.                                                                   *)

ResultNone == [kind |-> "None", idx |-> 0, score |-> <<>>, note |-> FALSE]

ResultRaise == [kind |-> "raise", idx |-> 0, score |-> <<>>, note |-> FALSE]

Pair(arts, i, note) ==
    [kind |-> "pair", idx |-> i, score |-> arts[i].score, note |-> note]

\* select.py:97-109: the loop over sorted_articles from position k
RECURSIVE FirstNotSelected(_, _, _, _)
FirstNotSelected(arts, order, history, k) ==
    IF k > Len(order) THEN Pair(arts, order[1], TRUE)
    ELSE LET prev == is_article_previously_selected(arts[order[k]], history) IN
         IF prev = "raise" THEN ResultRaise
         ELSE IF prev = "False" THEN Pair(arts, order[k], FALSE)
         ELSE FirstNotSelected(arts, order, history, k + 1)

select_top_article(arts, avoid, file, fault) ==
    IF arts = <<>> THEN ResultNone
    ELSE LET history == IF avoid THEN load_selection_history(file, fault) ELSE EmptyList
             order == sorted_articles(arts)
         IN IF ~avoid THEN Pair(arts, order[1], FALSE)
            ELSE FirstNotSelected(arts, order, history, 1)

----------------------------------------------------------------------------
(* select.py:112-136.  Returns the new file, or "raise" when               *)
(* history.append fails because the loaded JSON value is not a list.       *)

HistoryEntryNoIds(article) == [isdict |-> TRUE, doi |-> "", pmid |-> ""]

HistoryEntry(article) == [isdict |-> TRUE, doi |-> article.doi, pmid |-> article.pmid]

RecordRaises(file, fault) == load_selection_history(file, fault).kind # "list"

record_selected_article(article, file, fault, outcome) ==
    LET history == load_selection_history(file, fault)
        updated == JsonList(Append(history.items, HistoryEntry(article)))
    IN save_selection_history(file, updated, outcome)

----------------------------------------------------------------------------
(* step2/fetch_fulltext.py: data *)

\* fetch_fulltext.py:13-20.  A result is the route and the set of keys of
\* the returned dict; html is the value under "html" ("" when the key is
\* absent).  Absent is None.
Absent == [route |-> "", fields |-> {}, html |-> ""]

ResultWithText(route, fields, html) ==
    [route |-> route, fields |-> fields \cup {"html"}, html |-> html]

Result(route, fields, html) == [route |-> route, fields |-> fields, html |-> html]

NoLocals == [links |-> <<>>, pmcid |-> "", url |-> ""]

SettingsSet ==
    [fulltext_override : {"", "manual text"},
     allow_network : BOOLEAN,
     unpaywall_email : {"", "me@example.org"},
     abstract_only_ok : BOOLEAN]

\* the resolver before any call (the state in which step1 runs)
ResIdle ==
    /\ settings = [fulltext_override |-> "", allow_network |-> TRUE,
                   unpaywall_email |-> "", abstract_only_ok |-> TRUE]
    /\ doi = "" /\ pmid = ""
    /\ rpc = "idle" /\ stage = "" /\ pmcid = "" /\ depth = 0 /\ reentries = 0
    /\ locals = NoLocals /\ result = Absent /\ nreq = 0 /\ failure = ""
    /\ stage_log = <<>>

(* What requests.get gives for one request: an exception (network error,   *)
(* timeout), or a response with a status and a content-type header, here   *)
(* the set of media types the header contains.                             *)
MediaTypes == {"text/html", "application/pdf"}

NetError == [exc |-> TRUE, status |-> 0, ctype |-> {}]

Responses ==
    {NetError} \cup
    {[exc |-> FALSE, status |-> st, ctype |-> ct] : st \in {200, 404}, ct \in SUBSET MediaTypes}

\* an API answer is a response with a body: not JSON ("malformed"), JSON of
\* another shape than the code reads ("badshape"), or the data read from it
ApiResponses(datas) ==
    {[exc |-> TRUE, status |-> 0, json |-> "malformed", data |-> d] : d \in {NoLocals}} \cup
    {[exc |-> FALSE, status |-> 404, json |-> "malformed", data |-> d] : d \in {NoLocals}} \cup
    {[exc |-> FALSE, status |-> 200, json |-> j, data |-> d] :
        j \in {"malformed", "badshape"}, d \in {NoLocals}} \cup
    {[exc |-> FALSE, status |-> 200, json |-> "ok", data |-> d] : d \in datas}

\* a fullTextUrl entry; the url of a link of another type is never read
Link ==
    [documentType : {"pdf", "html"}, url : {"", "u"}]
    \cup {[documentType |-> "other", url |-> "u"]}

LinkLists == UNION {[1..n -> Link] : n \in 0..MaxLinks}

\* Europe PMC search answers: results[0] as read by each caller ("found"
\* FALSE: the result list is empty)
LookupData == {[found |-> f, pmcid |-> p] : f \in BOOLEAN, p \in {"", "PMC1"}}

EuropeData ==
    {[found |-> FALSE, pmcid |-> "", links |-> <<>>]} \cup
    {[found |-> TRUE, pmcid |-> p, links |-> l] : p \in {"", "PMC1"}, l \in LinkLists}

AbstractData == {[found |-> f, abstractText |-> a] : f \in BOOLEAN, a \in {"", "abstract text"}}

\* Unpaywall: best_oa_location ("found" FALSE: null or missing)
UnpaywallData == {[found |-> f, pdf_url |-> p, url |-> u] :
                     f \in BOOLEAN, p \in {"", "u"}, u \in {"", "u"}}

\* Crossref: message.url
CrossrefData == {[url |-> u] : u \in {"", "u"}}

CatchesButCrossref(fn) ==
    fn \in {"_fetch_pmc", "_fetch_unpaywall", "_fetch_europe_pmc",
            "_fetch_abstract", "_make_request", "_get_pmcid_from_identifiers"}

\* the functions whose whole body is inside try / except Exception
\* (fetch_fulltext.py:93,138,190,262,305,352,388); resolve_fulltext has none
Catches(fn) ==
    fn \in {"_fetch_pmc", "_fetch_unpaywall", "_fetch_europe_pmc", "_fetch_crossref",
            "_fetch_abstract", "_make_request", "_get_pmcid_from_identifiers"}

\* fetch_fulltext.py:344-377: None, the response, or (were the except
\* missing) the exception.  At the recursion limit the call itself fails.
_make_request(resp, expected_content_type, d) ==
    IF resp.exc \/ d >= RecursionLimit
    THEN IF Catches("_make_request") THEN "None" ELSE "raise"
    ELSE IF expected_content_type # "" /\ expected_content_type \notin resp.ctype
    THEN "None"
    ELSE "response"

\* why a request did not give a usable answer: the call could not be made,
\* requests.get raised, the content type was not the expected one, the
\* status was not 200, the body was not JSON or not of the shape read
Observed(resp, made, json) ==
    IF depth >= RecursionLimit THEN "recursion"
    ELSE IF resp.exc THEN "error"
    ELSE IF made = "None" THEN "content-type"
    ELSE IF resp.status # 200 THEN "status"
    ELSE IF json = "malformed" THEN "json"
    ELSE IF json = "badshape" THEN "shape"
    ELSE failure

\* "response and response.status_code == 200"
Ok200(made, resp) == made = "response" /\ resp.status = 200

----------------------------------------------------------------------------
(* cli.py:210-219, one run of fetch after scoring; NextRun starts the next *)
(* run over the same candidate list.                                       *)

Faults == IF io_faults THEN {FALSE, TRUE} ELSE {FALSE}

SaveOutcomes == IF io_faults THEN {"ok", "fail", "truncated"} ELSE {"ok"}

SelInit ==
    /\ FnIdle
    /\ ResIdle
    /\ articles \in ArticleLists
    /\ avoid_history \in BOOLEAN
    /\ history_file \in FileStates
    /\ io_faults = FALSE     \* a store that cannot be read is in state Unreadable
    /\ cli_pc = "select"
    /\ selection_result = ResultNone
    /\ chosen = [i \in DOMAIN articles |-> 0]
    /\ runs = 0

\* step1 before any run (the state in which step2 runs)
SelIdle ==
    /\ articles = <<>> /\ avoid_history = TRUE /\ history_file = Missing
    /\ io_faults = FALSE /\ cli_pc = "idle" /\ selection_result = ResultNone
    /\ chosen = <<>> /\ runs = 0

\* cli.py:211-214
SelectTopArticle ==
    /\ cli_pc = "select"
    /\ \E fault \in Faults :
         \E r \in {select_top_article(articles, avoid_history, history_file, fault)} :
         /\ selection_result' = r
         /\ cli_pc' = CASE r.kind = "None" -> "exit"
                        [] r.kind = "raise" -> "crashed"
                        [] OTHER -> "record"
         /\ chosen' = IF r.kind = "pair"
                      THEN [chosen EXCEPT ![r.idx] = @ + 1] ELSE chosen
    /\ runs' = runs + 1
    /\ UNCHANGED <<articles, avoid_history, history_file, io_faults>>
    /\ UNCHANGED <<resvars, fnvars>>

\* cli.py:216-219
RecordSelectedArticle ==
    /\ cli_pc = "record"
    /\ \E fault \in Faults, outcome \in SaveOutcomes :
         IF RecordRaises(history_file, fault)
         THEN /\ cli_pc' = "crashed"
              /\ history_file' = history_file
         ELSE /\ cli_pc' = "done"
              /\ history_file' = record_selected_article(
                     articles[selection_result.idx], history_file, fault, outcome)
    /\ UNCHANGED <<articles, avoid_history, io_faults, selection_result, chosen, runs>>
    /\ UNCHANGED <<resvars, fnvars>>

\* the next invocation of the command over the same candidates
NextRun ==
    /\ cli_pc = "done"
    /\ runs < MaxRuns
    /\ cli_pc' = "select"
    /\ UNCHANGED <<articles, avoid_history, history_file, io_faults,
                   selection_result, chosen, runs>>
    /\ UNCHANGED <<resvars, fnvars>>

\* one run of the command, from any state of the store
SelNext == SelectTopArticle \/ RecordSelectedArticle

SpecSelect == SelInit /\ [][SelNext]_vars

RunsNext == SelectTopArticle \/ RecordSelectedArticle \/ NextRun

\* sequential runs from an empty store, every read and write succeeding
RunsInit ==
    /\ FnIdle
    /\ ResIdle
    /\ articles \in ArticleLists
    /\ avoid_history = TRUE
    /\ history_file = Missing
    /\ io_faults = FALSE
    /\ cli_pc = "select"
    /\ selection_result = ResultNone
    /\ chosen = [i \in DOMAIN articles |-> 0]
    /\ runs = 0

SpecRuns == RunsInit /\ [][RunsNext]_vars

----------------------------------------------------------------------------
(* fetch_fulltext.py:23-79: the chain of stages *)

StageOrder == <<"pmc", "unpaywall", "europepmc", "crossref", "abstract">>

StageIndex(stg) == CHOOSE k \in DOMAIN StageOrder : StageOrder[k] = stg

\* the guards of resolve_fulltext in front of each stage (lines 57, 68, 74)
Permitted(stg) ==
    CASE stg = "unpaywall" -> settings.unpaywall_email # ""
      [] stg = "crossref" -> doi # ""
      [] stg = "abstract" -> settings.abstract_only_ok
      [] OTHER -> TRUE

\* the first request of a stage, or "none" when the stage function returns
\* None before any request (lines 197-198, 312-313, 395-396)
EntryPoint(stg) ==
    CASE stg = "pmc" -> IF doi # "" \/ pmid # "" THEN "pmc_lookup" ELSE "none"
      [] stg = "unpaywall" -> "upw_api"
      [] stg = "europepmc" -> IF doi # "" \/ pmid # "" THEN "epmc_api" ELSE "none"
      [] stg = "crossref" -> "cr_api"
      [] OTHER -> IF doi # "" \/ pmid # "" THEN "abs_api" ELSE "none"

\* resolve_fulltext from its k-th stage on, up to the next request
RECURSIVE RunFrom(_, _)
RunFrom(k, log) ==
    IF k > Len(StageOrder)
    THEN [rpc |-> "returned", stage |-> "", log |-> log]
    ELSE IF ~Permitted(StageOrder[k]) THEN RunFrom(k + 1, log)
    ELSE IF EntryPoint(StageOrder[k]) = "none"
    THEN RunFrom(k + 1, Append(log, [stage |-> StageOrder[k], ok |-> FALSE]))
    ELSE [rpc |-> EntryPoint(StageOrder[k]), stage |-> StageOrder[k], log |-> log]

\* the functions on the call stack below resolve_fulltext at a request
Chain(at, stg) ==
    CASE at \in {"pmc_pdf", "pmc_html"} ->
            {"_fetch_pmc"} \cup (IF stg = "europepmc" THEN {"_fetch_europe_pmc"} ELSE {})
      [] at = "pmc_lookup" ->
            {"_get_pmcid_from_identifiers", "_fetch_pmc"}
            \cup (IF stg = "europepmc" THEN {"_fetch_europe_pmc"} ELSE {})
      [] at \in {"upw_api", "upw_pdf", "upw_html"} -> {"_fetch_unpaywall"}
      [] at \in {"epmc_api", "epmc_link"} -> {"_fetch_europe_pmc"}
      [] at \in {"cr_api", "cr_page"} -> {"_fetch_crossref"}
      [] OTHER -> {"_fetch_abstract"}

\* an exception raised at a request leaves resolve_fulltext
Escapes(at, stg) == \A fn \in Chain(at, stg) : ~Catches(fn)

ReturnDropped(v) ==
    LET nxt == RunFrom(StageIndex(stage) + 1,
                       Append(stage_log, [stage |-> stage, ok |-> TRUE])) IN
    /\ rpc' = nxt.rpc
    /\ stage' = nxt.stage
    /\ stage_log' = nxt.log
    /\ depth' = IF nxt.rpc = "pmc_lookup" THEN 1 ELSE 0
    /\ result' = v /\ pmcid' = "" /\ locals' = NoLocals /\ reentries' = 0

\* the stage returned a result: resolve_fulltext returns it (if result:)
Return(v) ==
    /\ rpc' = "returned"
    /\ result' = v
    /\ stage_log' = Append(stage_log, [stage |-> stage, ok |-> TRUE])
    /\ depth' = 0 /\ pmcid' = "" /\ locals' = NoLocals
    /\ UNCHANGED <<stage, reentries>>

\* the stage returned None: the next permitted stage starts
StageFail ==
    LET nxt == RunFrom(StageIndex(stage) + 1,
                       Append(stage_log, [stage |-> stage, ok |-> FALSE])) IN
    /\ rpc' = nxt.rpc
    /\ stage' = nxt.stage
    /\ stage_log' = nxt.log
    /\ depth' = IF nxt.rpc = "pmc_lookup" THEN 1 ELSE 0
    /\ result' = Absent /\ pmcid' = "" /\ locals' = NoLocals /\ reentries' = 0

\* an exception was raised inside the stage at request point rpc
Raise ==
    IF Escapes(rpc, stage)
    THEN /\ rpc' = "raised"
         /\ UNCHANGED <<stage, stage_log, depth, result, pmcid, locals, reentries>>
    ELSE StageFail

\* a request is issued unless the interpreter cannot make the call
Issue == nreq' = IF depth >= RecursionLimit THEN nreq ELSE nreq + 1

ResInit ==
    /\ FnIdle
    /\ SelIdle
    /\ settings \in SettingsSet
    /\ doi \in {"", "10.1/x"}
    /\ pmid \in {"", "123"}
    /\ rpc = "start" /\ stage = "" /\ pmcid = "" /\ depth = 0 /\ reentries = 0
    /\ locals = NoLocals /\ result = Absent /\ nreq = 0 /\ failure = ""
    /\ stage_log = <<>>

StartChain ==
    LET nxt == RunFrom(1, <<>>) IN
    /\ rpc' = nxt.rpc
    /\ stage' = nxt.stage
    /\ stage_log' = nxt.log
    /\ depth' = IF nxt.rpc = "pmc_lookup" THEN 1 ELSE 0
    /\ UNCHANGED result

ResolveStartNetworkFirst ==
    /\ rpc = "start"
    /\ IF ~settings.allow_network
       THEN /\ rpc' = "returned"
            /\ UNCHANGED <<result, stage, stage_log, depth>>
       ELSE IF settings.fulltext_override # ""
       THEN /\ rpc' = "returned"
            /\ result' = Result("override", {"route", "html"}, settings.fulltext_override)
            /\ UNCHANGED <<stage, stage_log, depth>>
       ELSE StartChain
    /\ UNCHANGED <<settings, doi, pmid, pmcid, reentries, locals, nreq, failure>>
    /\ UNCHANGED <<selvars, fnvars>>

ResolveStartNetworkIgnored ==
    /\ rpc = "start"
    /\ IF settings.fulltext_override # ""
       THEN /\ rpc' = "returned"
            /\ result' = Result("override", {"route", "html"}, settings.fulltext_override)
            /\ UNCHANGED <<stage, stage_log, depth>>
       ELSE StartChain
    /\ UNCHANGED <<settings, doi, pmid, pmcid, reentries, locals, nreq, failure>>
    /\ UNCHANGED <<selvars, fnvars>>

\* fetch_fulltext.py:39-52
ResolveStart ==
    /\ rpc = "start"
    /\ IF settings.fulltext_override # ""
       THEN /\ rpc' = "returned"
            /\ result' = Result("override", {"route", "html"}, settings.fulltext_override)
            /\ UNCHANGED <<stage, stage_log, depth>>
       ELSE IF ~settings.allow_network
       THEN /\ rpc' = "returned"
            /\ UNCHANGED <<result, stage, stage_log, depth>>
       ELSE StartChain
    /\ UNCHANGED <<settings, doi, pmid, pmcid, reentries, locals, nreq, failure>>
    /\ UNCHANGED <<selvars, fnvars>>

\* fetch_fulltext.py:95-105
PmcPdf ==
    /\ rpc = "pmc_pdf"
    /\ Issue
    /\ \E resp \in Responses :
         \E made \in {_make_request(resp, "application/pdf", depth)} :
            /\ failure' = Observed(resp, made, "ok")
            /\ IF made = "raise" THEN Raise
               ELSE IF Ok200(made, resp)
               THEN Return(Result("pmc", {"route", "pmcid", "oa_pdf_url", "pdf_bytes"}, ""))
               ELSE /\ rpc' = "pmc_html"
                    /\ UNCHANGED <<stage, stage_log, depth, result, pmcid, locals, reentries>>
    /\ UNCHANGED <<settings, doi, pmid>>
    /\ UNCHANGED <<selvars, fnvars>>

\* fetch_fulltext.py:107-118
PmcHtml ==
    /\ rpc = "pmc_html"
    /\ Issue
    /\ \E resp \in Responses :
         \E made \in {_make_request(resp, "text/html", depth)} :
            /\ failure' = Observed(resp, made, "ok")
            /\ IF made = "raise" THEN Raise
               ELSE IF Ok200(made, resp)
               THEN Return(Result("pmc", {"route", "pmcid", "html"}, "response.text"))
               ELSE IF doi # "" \/ pmid # ""
               THEN /\ rpc' = "pmc_lookup"
                    /\ UNCHANGED <<stage, stage_log, depth, result, pmcid, locals, reentries>>
               ELSE StageFail
    /\ UNCHANGED <<settings, doi, pmid>>
    /\ UNCHANGED <<selvars, fnvars>>

\* fetch_fulltext.py:118-120 and 380-419
PmcLookup ==
    /\ rpc = "pmc_lookup"
    /\ Issue
    /\ \E resp \in ApiResponses(LookupData) :
         \E made \in {_make_request(resp, "", depth)} :
            /\ failure' = Observed(resp, made, resp.json)
            /\ IF made = "raise" THEN Raise
               ELSE IF ~Ok200(made, resp) THEN StageFail
               ELSE IF resp.json # "ok" THEN Raise
               ELSE IF resp.data.found /\ resp.data.pmcid # ""
               THEN \* return _fetch_pmc(doi, pmid, pmcid_from_identifiers, settings)
                    /\ rpc' = "pmc_pdf"
                    /\ pmcid' = resp.data.pmcid
                    /\ depth' = depth + 1
                    /\ reentries' = reentries + 1
                    /\ UNCHANGED <<stage, stage_log, result, locals>>
               ELSE StageFail
    /\ UNCHANGED <<settings, doi, pmid>>
    /\ UNCHANGED <<selvars, fnvars>>

\* fetch_fulltext.py:139-155 and 166-167
UnpaywallApi ==
    /\ rpc = "upw_api"
    /\ Issue
    /\ \E resp \in ApiResponses(UnpaywallData) :
         \E made \in {_make_request(resp, "", depth)} :
            /\ failure' = Observed(resp, made, resp.json)
            /\ IF made = "raise" THEN Raise
               ELSE IF ~Ok200(made, resp) THEN StageFail
               ELSE IF resp.json # "ok" THEN Raise
               ELSE IF resp.data.found /\ resp.data.pdf_url # ""
               THEN /\ rpc' = "upw_pdf"
                    /\ locals' = [NoLocals EXCEPT !.url = resp.data.url]
                    /\ UNCHANGED <<stage, stage_log, depth, result, pmcid, reentries>>
               ELSE IF resp.data.found /\ resp.data.url # ""
               THEN /\ rpc' = "upw_html"
                    /\ locals' = [NoLocals EXCEPT !.url = resp.data.url]
                    /\ UNCHANGED <<stage, stage_log, depth, result, pmcid, reentries>>
               ELSE StageFail
    /\ UNCHANGED <<settings, doi, pmid>>
    /\ UNCHANGED <<selvars, fnvars>>

\* fetch_fulltext.py:156-167
UnpaywallPdf ==
    /\ rpc = "upw_pdf"
    /\ Issue
    /\ \E resp \in Responses :
         \E made \in {_make_request(resp, "application/pdf", depth)} :
            /\ failure' = Observed(resp, made, "ok")
            /\ IF made = "raise" THEN Raise
               ELSE IF Ok200(made, resp)
               THEN Return(Result("unpaywall", {"route", "oa_pdf_url", "pdf_bytes"}, ""))
               ELSE IF locals.url # ""
               THEN /\ rpc' = "upw_html"
                    /\ UNCHANGED <<stage, stage_log, depth, result, pmcid, locals, reentries>>
               ELSE StageFail
    /\ UNCHANGED <<settings, doi, pmid>>
    /\ UNCHANGED <<selvars, fnvars>>

\* fetch_fulltext.py:168-179
UnpaywallHtml ==
    /\ rpc = "upw_html"
    /\ Issue
    /\ \E resp \in Responses :
         \E made \in {_make_request(resp, "text/html", depth)} :
            /\ failure' = Observed(resp, made, "ok")
            /\ IF made = "raise" THEN Raise
               ELSE IF Ok200(made, resp)
               THEN Return(Result("unpaywall", {"route", "publisher_url", "html"}, "response.text"))
               ELSE StageFail
    /\ UNCHANGED <<settings, doi, pmid>>
    /\ UNCHANGED <<selvars, fnvars>>

\* fetch_fulltext.py:220-236: the links the loop passes over without a request
RECURSIVE SkipLinks(_)
SkipLinks(links) ==
    IF links = <<>> THEN <<>>
    ELSE IF links[1].documentType \in {"pdf", "html"} /\ links[1].url # "" THEN links
    ELSE SkipLinks(Tail(links))

\* fetch_fulltext.py:220-247: the loop from `links` on, up to its next
\* request; after the loop, _fetch_pmc when the result carries a pmcid
EuropeContinue(links, id) ==
    LET rest == SkipLinks(links) IN
    IF rest # <<>>
    THEN /\ rpc' = "epmc_link"
         /\ locals' = [links |-> rest, pmcid |-> id, url |-> ""]
         /\ UNCHANGED <<stage, stage_log, depth, result, pmcid, reentries>>
    ELSE IF id # ""
    THEN /\ rpc' = "pmc_pdf"
         /\ pmcid' = id
         /\ depth' = 1
         /\ locals' = NoLocals
         /\ UNCHANGED <<stage, stage_log, result, reentries>>
    ELSE StageFail

\* fetch_fulltext.py:190-219
EuropePmcApi ==
    /\ rpc = "epmc_api"
    /\ Issue
    /\ \E resp \in ApiResponses(EuropeData) :
         \E made \in {_make_request(resp, "", depth)} :
            /\ failure' = Observed(resp, made, resp.json)
            /\ IF made = "raise" THEN Raise
               ELSE IF ~Ok200(made, resp) THEN StageFail
               ELSE IF resp.json # "ok" THEN Raise
               ELSE IF resp.data.found
               THEN EuropeContinue(resp.data.links, resp.data.pmcid)
               ELSE StageFail
    /\ UNCHANGED <<settings, doi, pmid>>
    /\ UNCHANGED <<selvars, fnvars>>

\* fetch_fulltext.py:220-243: the request for the link at the head
EuropePmcLink ==
    /\ rpc = "epmc_link"
    /\ Issue
    /\ LET link == locals.links[1]
           expected == IF link.documentType = "pdf" THEN "application/pdf" ELSE "text/html"
       IN \E resp \in Responses :
            \E made \in {_make_request(resp, expected, depth)} :
               /\ failure' = Observed(resp, made, "ok")
               /\ IF made = "raise" THEN Raise
                  ELSE IF Ok200(made, resp)
                  THEN IF link.documentType = "pdf"
                       THEN Return(Result("europempc",
                                          {"route", "pmcid", "oa_pdf_url", "pdf_bytes"}, ""))
                       ELSE Return(Result("europempc", {"route", "pmcid", "html"},
                                          "response.text"))
                  ELSE EuropeContinue(Tail(locals.links), locals.pmcid)
    /\ UNCHANGED <<settings, doi, pmid>>
    /\ UNCHANGED <<selvars, fnvars>>

\* fetch_fulltext.py:262-272
CrossrefApi ==
    /\ rpc = "cr_api"
    /\ Issue
    /\ \E resp \in ApiResponses(CrossrefData) :
         \E made \in {_make_request(resp, "", depth)} :
            /\ failure' = Observed(resp, made, resp.json)
            /\ IF made = "raise" THEN Raise
               ELSE IF ~Ok200(made, resp) THEN StageFail
               ELSE IF resp.json # "ok" THEN Raise
               ELSE IF resp.data.url # ""
               THEN /\ rpc' = "cr_page"
                    /\ locals' = [NoLocals EXCEPT !.url = resp.data.url]
                    /\ UNCHANGED <<stage, stage_log, depth, result, pmcid, reentries>>
               ELSE StageFail
    /\ UNCHANGED <<settings, doi, pmid>>
    /\ UNCHANGED <<selvars, fnvars>>

\* fetch_fulltext.py:273-294
CrossrefPage ==
    /\ rpc = "cr_page"
    /\ Issue
    /\ \E resp \in Responses :
         \E made \in {_make_request(resp, "text/html", depth)} :
            /\ failure' = Observed(resp, made, "ok")
            /\ IF made = "raise" THEN Raise
               ELSE IF Ok200(made, resp)
               THEN IF "application/pdf" \in resp.ctype
                    THEN Return(Result("publisher", {"route", "publisher_url", "pdf_bytes"}, ""))
                    ELSE Return(Result("publisher", {"route", "publisher_url", "html"},
                                       "response.text"))
               ELSE StageFail
    /\ UNCHANGED <<settings, doi, pmid>>
    /\ UNCHANGED <<selvars, fnvars>>

\* fetch_fulltext.py:305-341
AbstractApi ==
    /\ rpc = "abs_api"
    /\ Issue
    /\ \E resp \in ApiResponses(AbstractData) :
         \E made \in {_make_request(resp, "", depth)} :
            /\ failure' = Observed(resp, made, resp.json)
            /\ IF made = "raise" THEN Raise
               ELSE IF ~Ok200(made, resp) THEN StageFail
               ELSE IF resp.json # "ok" THEN Raise
               ELSE IF resp.data.found /\ resp.data.abstractText # ""
               THEN Return(Result("abstract", {"route", "abstract"}, ""))
               ELSE StageFail
    /\ UNCHANGED <<settings, doi, pmid>>
    /\ UNCHANGED <<selvars, fnvars>>

ResNext ==
    \/ ResolveStart
    \/ PmcPdf \/ PmcHtml \/ PmcLookup
    \/ UnpaywallApi \/ UnpaywallPdf \/ UnpaywallHtml
    \/ EuropePmcApi \/ EuropePmcLink
    \/ CrossrefApi \/ CrossrefPage
    \/ AbstractApi

SpecResolve == ResInit /\ [][ResNext]_vars

----------------------------------------------------------------------------
(* Properties of the selector *)

\* the valid entries of the store match a candidate by DOI or by PMID
MatchesEntry(article, e) ==
    \/ article.doi # "" /\ e.doi = article.doi
    \/ article.pmid # "" /\ e.pmid = article.pmid

InHistory(article) ==
    /\ history_file.state = "json"
    /\ \E k \in DOMAIN history_file.json.items :
          /\ history_file.json.items[k].isdict
          /\ MatchesEntry(article, history_file.json.items[k])

\* index i has the greatest score (None counting as 0) and is the first such
IsTopScored(i) ==
    \A j \in DOMAIN articles :
        /\ ScoreKey(articles[j]) <= ScoreKey(articles[i])
        /\ ScoreKey(articles[j]) = ScoreKey(articles[i]) => i <= j

\* select_top_article has just returned a pair; the store is as it read it
JustSelected == cli_pc = "record" /\ selection_result.kind = "pair"

\* C1: with avoid_history=true a returned candidate matches no history entry
\* (by DOI or PMID) whenever some candidate matches none; when every
\* candidate matches one, the top-scored candidate is returned and the
\* rationale carries the previously-selected note.
C1_AvoidsHistory ==
    (JustSelected /\ avoid_history) =>
        LET i == selection_result.idx IN
        /\ (\E j \in DOMAIN articles : ~InHistory(articles[j]))
              => ~InHistory(articles[i])
        /\ (\A j \in DOMAIN articles : InHistory(articles[j]))
              => IsTopScored(i) /\ selection_result.note

\* the top-scored candidate is in the history and a lower one was returned
C1_Witness ==
    /\ JustSelected /\ avoid_history
    /\ \E j \in DOMAIN articles :
          IsTopScored(j) /\ InHistory(articles[j]) /\ selection_result.idx # j
    /\ ~InHistory(articles[selection_result.idx])

\* C2 (as claimed): over sequential runs from an empty store, no candidate
\* is chosen a second time before every candidate has been chosen once.
C2_NoRepeatBeforeAll ==
    (\E i \in DOMAIN chosen : chosen[i] >= 2)
        => \A j \in DOMAIN chosen : chosen[j] >= 1

\* every candidate has a DOI or a PMID, and no two share a DOI or a PMID
DistinctIdentifiers ==
    /\ \A i \in DOMAIN articles : articles[i].doi # "" \/ articles[i].pmid # ""
    /\ \A i, j \in DOMAIN articles : i # j =>
          /\ ~(articles[i].doi # "" /\ articles[i].doi = articles[j].doi)
          /\ ~(articles[i].pmid # "" /\ articles[i].pmid = articles[j].pmid)

\* C2 (amended): the same, for candidate lists in which every candidate has
\* an identifier and no two candidates share a DOI or share a PMID.
C2_NoRepeatDistinctIds == DistinctIdentifiers => C2_NoRepeatBeforeAll

\* two distinct candidates were each chosen, and the fallback chose one again
C2_Witness ==
    /\ DistinctIdentifiers
    /\ Len(articles) >= 2
    /\ \E i \in DOMAIN chosen : chosen[i] >= 2
    /\ Len(history_file.json.items) >= 2

\* C3 (as claimed): select_top_article returns None iff the list is empty
\* and never raises; on a non-empty list it returns a member of the list.
C3_NoneIffEmptyNeverRaises ==
    runs > 0 =>
        /\ selection_result.kind # "raise"
        /\ selection_result.kind = "None" <=> articles = <<>>
        /\ articles # <<>> => selection_result.idx \in DOMAIN articles

\* C4: with avoid_history=false the returned candidate has maximal score
\* (None counting as 0.0) and is the first of those in the input list,
\* whatever the history store holds.
C4_TopWithoutHistory ==
    (runs > 0 /\ ~avoid_history /\ articles # <<>>) =>
        /\ selection_result.kind = "pair"
        /\ IsTopScored(selection_result.idx)
        /\ ~selection_result.note

\* a tie at the top between a None score and 0, the returned candidate
\* being in the history
C4_Witness ==
    /\ JustSelected /\ ~avoid_history
    /\ InHistory(articles[selection_result.idx])
    /\ \E j \in DOMAIN articles :
          /\ j # selection_result.idx
          /\ ScoreKey(articles[j]) = ScoreKey(articles[selection_result.idx])
          /\ articles[j].score # articles[selection_result.idx].score

----------------------------------------------------------------------------
(* Properties of the full-text resolver *)

SpecResolveFair == SpecResolve /\ WF_vars(ResNext)

Running == rpc \notin {"start", "returned", "raised"}

NoOverride == settings.fulltext_override = ""

\* the fixed order of the chain
StageRank(stg) ==
    CASE stg = "pmc" -> 1
      [] stg = "unpaywall" -> 2
      [] stg = "europepmc" -> 3
      [] stg = "crossref" -> 4
      [] stg = "abstract" -> 5

\* the routes a stage's result can carry (the Europe PMC stage may hand
\* over to the repository fetch)
RoutesOf(stg) ==
    CASE stg = "pmc" -> {"pmc"}
      [] stg = "unpaywall" -> {"unpaywall"}
      [] stg = "europepmc" -> {"europempc", "pmc"}
      [] stg = "crossref" -> {"publisher"}
      [] stg = "abstract" -> {"abstract"}

\* C5: without override and with networking enabled the stages run in the
\* order pmc, unpaywall, europepmc, crossref, abstract; the call returns the
\* result of the first stage that succeeds, and once a stage has succeeded
\* no stage runs and no request is pending.
C5_OrderedShortCircuit ==
    /\ \A i, j \in DOMAIN stage_log :
          i < j => StageRank(stage_log[i].stage) < StageRank(stage_log[j].stage)
    /\ Running => \A i \in DOMAIN stage_log :
          StageRank(stage_log[i].stage) < StageRank(stage)
    /\ \A i \in DOMAIN stage_log :
          stage_log[i].ok => i = Len(stage_log) /\ rpc = "returned"
    /\ (rpc = "returned" /\ NoOverride /\ settings.allow_network) =>
          IF stage_log # <<>> /\ stage_log[Len(stage_log)].ok
          THEN result.route \in RoutesOf(stage_log[Len(stage_log)].stage)
          ELSE result = Absent

\* three stages failed and the fourth, Crossref, gave the result
C5_Witness ==
    /\ rpc = "returned"
    /\ Len(stage_log) = 4
    /\ stage_log[4] = [stage |-> "crossref", ok |-> TRUE]
    /\ result.route = "publisher"
    /\ nreq >= 5

\* C6: with an override text configured the call returns route "override"
\* carrying that text, whatever allow_network, doi and pmid are, and issues
\* no request.
C6_OverrideWins ==
    (rpc # "start" /\ ~NoOverride) =>
        /\ rpc = "returned"
        /\ result.route = "override"
        /\ result.html = settings.fulltext_override
        /\ "html" \in result.fields
        /\ nreq = 0 /\ stage_log = <<>>

\* the override returned with networking disabled
C6_Witness ==
    /\ rpc = "returned" /\ ~NoOverride /\ ~settings.allow_network
    /\ doi # "" /\ result.route = "override"

\* C7: with networking disabled and no override the call returns None, no
\* stage is invoked and no request is issued.
C7_NetworkDisabled ==
    (rpc # "start" /\ NoOverride /\ ~settings.allow_network) =>
        /\ rpc = "returned"
        /\ result = Absent
        /\ nreq = 0 /\ stage_log = <<>>

\* absent although identifiers and a contact email are there
C7_Witness ==
    /\ rpc = "returned" /\ NoOverride /\ ~settings.allow_network
    /\ doi # "" /\ pmid # "" /\ settings.unpaywall_email # ""
    /\ result = Absent

\* C8: no failure of a request (exception, non-200 status, content-type
\* mismatch, malformed or misshaped JSON) makes resolve_fulltext raise; the
\* call always ends by returning.
C8_NeverRaises == [](rpc # "raised") /\ <>(rpc = "returned")

\* every stage ran and failed, the last one on a body that is not JSON,
\* and the call returned None
C8_Witness ==
    /\ rpc = "returned" /\ result = Absent
    /\ Len(stage_log) = 5
    /\ nreq >= 5
    /\ failure = "json"

\* C9 (as claimed): _fetch_pmc is re-entered at most once after an
\* identifier lookup within one call.
C9_OneReentry == reentries <= 1

\* C10: a result carries one route name of the six and exactly one payload
\* key of html, pdf_bytes, abstract; abstract only with route "abstract".
C10_OneRouteOnePayload ==
    result # Absent =>
        /\ result.route \in {"override", "pmc", "unpaywall", "europempc",
                             "publisher", "abstract"}
        /\ "route" \in result.fields
        /\ Cardinality(result.fields \cap {"html", "pdf_bytes", "abstract"}) = 1
        /\ "abstract" \in result.fields => result.route = "abstract"

\* a binary payload returned by the Europe PMC stage through _fetch_pmc
C10_Witness ==
    /\ rpc = "returned" /\ stage = "europepmc"
    /\ result.route = "pmc" /\ "pdf_bytes" \in result.fields

\* C11 (as claimed): without DOI, PMID and override the call returns None,
\* whatever the settings and the network do.
C11_NoIdentifiersAbsent ==
    (rpc = "returned" /\ doi = "" /\ pmid = "" /\ NoOverride) => result = Absent

----------------------------------------------------------------------------
(* Properties of the history store *)

\* runs of the command over a store in any state, on a disk that may fail
\* at any read or write
StoreInit ==
    /\ FnIdle
    /\ ResIdle
    /\ articles \in ArticleLists
    /\ avoid_history \in BOOLEAN
    /\ history_file \in FileStates
    /\ io_faults = TRUE
    /\ cli_pc = "select"
    /\ selection_result = ResultNone
    /\ chosen = [i \in DOMAIN articles |-> 0]
    /\ runs = 0

SpecStore == StoreInit /\ [][RunsNext]_vars

\* C12 (as claimed): no state of the store makes select_top_article or
\* record_selected_article raise.
C12_StoreNeverFatal == cli_pc # "crashed" /\ selection_result.kind # "raise"

\* the entries a reader of the store gets
StoredEntries ==
    IF history_file.state = "json" /\ history_file.json.kind = "list"
    THEN history_file.json.items ELSE <<>>

IsPrefix(s, t) == Len(s) <= Len(t) /\ \A k \in DOMAIN s : s[k] = t[k]

\* C13 (as claimed): the store is append-only: across every step the
\* stored entries stay, unmodified and in order, and at most one entry is
\* added, at the end.
C13_AppendOnly ==
    [][/\ IsPrefix(StoredEntries, StoredEntries')
       /\ Len(StoredEntries') <= Len(StoredEntries) + 1]_vars

----------------------------------------------------------------------------
(* step1/filters.py: deduplicate_articles                                  *)

MaxCandidates == 3   \* longest list handed to deduplicate_articles

\* the two fields of an Article that deduplicate_articles reads
Candidate == [doi : DOIs \cup {"d2"}, pmid : PMIDs]

CandidateLists == UNION {[1..n -> Candidate] : n \in 0..MaxCandidates}

\* the mutant of Identifier: the PMID before the DOI
IdentifierPmidFirst(article) ==
    IF article.pmid # "" THEN article.pmid ELSE article.doi

\* filters.py:171  identifier = article.doi if article.doi else article.pmid
Identifier(article) ==
    IF article.doi # "" THEN article.doi ELSE article.pmid

\* the mutant of Unseen: an identifier is looked up among the DOIs only
UnseenDoiOnly(identifier, seen_dois, seen_pmids) ==
    identifier # "" /\ identifier \notin seen_dois

\* filters.py:173  identifier and identifier not in seen_dois and ... seen_pmids
Unseen(identifier, seen_dois, seen_pmids) ==
    identifier # "" /\ identifier \notin seen_dois /\ identifier \notin seen_pmids

DedupInit ==
    /\ SelIdle /\ ResIdle
    /\ callee = "deduplicate_articles"
    /\ \E list \in CandidateLists :
         frame = [articles |-> list, i |-> 1, seen_dois |-> {},
                  seen_pmids |-> {}, unique_articles |-> <<>>]
    /\ ret = <<>>

\* filters.py:170-178, one iteration of the loop
DedupIterate ==
    /\ callee = "deduplicate_articles" /\ ret = <<>>
    /\ frame.i <= Len(frame.articles)
    /\ LET article == frame.articles[frame.i]
       IN  IF Unseen(Identifier(article), frame.seen_dois, frame.seen_pmids)
           THEN frame' = [frame EXCEPT
                    !.i = @ + 1,
                    !.seen_dois = IF article.doi # "" THEN @ \cup {article.doi} ELSE @,
                    !.seen_pmids = IF article.pmid # "" THEN @ \cup {article.pmid} ELSE @,
                    !.unique_articles = Append(@, article)]
           ELSE frame' = [frame EXCEPT !.i = @ + 1]
    /\ UNCHANGED <<callee, ret, selvars, resvars>>

\* filters.py:180
DedupReturn ==
    /\ callee = "deduplicate_articles" /\ ret = <<>>
    /\ frame.i > Len(frame.articles)
    /\ ret' = <<frame.unique_articles>>
    /\ UNCHANGED <<callee, frame, selvars, resvars>>

DedupNext == DedupIterate \/ DedupReturn

SpecDedup == DedupInit /\ [][DedupNext]_vars

IsSubsequence(s, t) ==
    \E f \in [DOMAIN s -> DOMAIN t] :
        /\ \A k \in DOMAIN s : s[k] = t[f[k]]
        /\ \A k, l \in DOMAIN s : k < l => f[k] < f[l]

FirstWithDoi(list, d) ==
    CHOOSE k \in DOMAIN list :
        list[k].doi = d /\ \A l \in 1..(k - 1) : list[l].doi # d

Dropped ==
    /\ callee = "deduplicate_articles" /\ ret = <<>>
    /\ frame.i <= Len(frame.articles)
    /\ frame'.i = frame.i + 1
    /\ frame'.unique_articles = frame.unique_articles

\* C15 (as claimed): every dropped record has the identity key of a record
\* retained earlier.
C15_DroppedHasRetainedKey ==
    [][Dropped =>
        \E k \in DOMAIN frame.unique_articles :
            Identifier(frame.unique_articles[k]) = Identifier(frame.articles[frame.i])]_vars

\* C15 (amended): a record is dropped exactly when it has neither DOI nor
\* PMID or its identity key is the DOI or the PMID of a record retained
\* earlier.
C15_DroppedIffKnown ==
    [][(callee = "deduplicate_articles" /\ ret = <<>> /\ frame'.i = frame.i + 1) =>
        (Dropped <=>
            \/ Identifier(frame.articles[frame.i]) = ""
            \/ \E k \in DOMAIN frame.unique_articles :
                 Identifier(frame.articles[frame.i]) \in
                    {frame.unique_articles[k].doi, frame.unique_articles[k].pmid})]_vars

\* a record without DOI was dropped for the PMID of a retained record that
\* has a DOI
C15_Witness ==
    /\ callee = "deduplicate_articles" /\ ret # <<>>
    /\ \E k, l \in DOMAIN frame.articles :
         /\ k < l
         /\ frame.articles[k].doi # ""
         /\ frame.articles[l].doi = ""
         /\ frame.articles[l].pmid = frame.articles[k].pmid
         /\ frame.articles[l].pmid # ""
         /\ \A j \in DOMAIN ret[1] : ret[1][j] # frame.articles[l]

----------------------------------------------------------------------------
(* Text: Python str values are strings; TLC's Len, SubSeq, Head, Tail and  *)
(* \o work on them character by character.                                 *)

Char(s, k) == SubSeq(s, k, k)

UpperCase == "ABCDEFGHIJKLMNOPQRSTUVWXYZ"
LowerCase == "abcdefghijklmnopqrstuvwxyz"

LowerTable ==
    [c \in {Char(UpperCase, k) : k \in 1..Len(UpperCase)} |->
        Char(LowerCase, CHOOSE k \in 1..Len(UpperCase) : Char(UpperCase, k) = c)]

LowerChar(c) == IF c \in DOMAIN LowerTable THEN LowerTable[c] ELSE c

\* str.lower()
RECURSIVE lower(_)
lower(s) == IF s = "" THEN "" ELSE LowerChar(Head(s)) \o lower(Tail(s))

\* sub in s
Contains(s, sub) ==
    \E k \in 1..(Len(s) - Len(sub) + 1) : SubSeq(s, k, k + Len(sub) - 1) = sub

IsDigit(c) == c \in {"0", "1", "2", "3", "4", "5", "6", "7", "8", "9"}

IsSpace(c) == c \in {" ", "\t", "\n", "\r"}

AllDigits(s, a, b) == \A k \in a..b : IsDigit(Char(s, k))

AllSpace(s, a, b) == \A k \in a..b : IsSpace(Char(s, k))

\* s[a..b] matches the regular expression \d+\.?\d*
NumberSpan(s, a, b) ==
    \E m \in a..b :
        /\ AllDigits(s, a, m)
        /\ \/ m = b
           \/ Char(s, m + 1) = "." /\ AllDigits(s, m + 2, b)

\* sep.join(parts)
RECURSIVE Join(_, _)
Join(parts, sep) ==
    IF parts = <<>> THEN ""
    ELSE IF Len(parts) = 1 THEN parts[1]
    ELSE parts[1] \o sep \o Join(Tail(parts), sep)

----------------------------------------------------------------------------
(* step1/scoring.py: score_article and score_articles.  A float score is   *)
(* counted in tenths (30 is 3.0); every bonus is a multiple of 0.5, so the *)
(* float sums of the code are exact.                                       *)

MaxScored == 2       \* longest list handed to score_articles

HIGH_QUALITY_JOURNALS ==
    {"Anesthesiology", "British Journal of Anaesthesia", "Anesthesia and Analgesia",
     "Anaesthesiology", "European Journal of Anaesthesiology",
     "Journal of Clinical Anesthesia", "Anesthesia & Analgesia", "Anaesthesia",
     "Acta Anaesthesiologica Scandinavica", "Canadian Journal of Anesthesia",
     "Regional Anesthesia and Pain Medicine", "Pain Medicine", "Journal of Anesthesia",
     "Anaesthesia, Pain & Intensive Care", "Middle East Journal of Anesthesiology",
     "Korean Journal of Anesthesiology", "Saudi Journal of Anaesthesia",
     "Indian Journal of Anaesthesia", "Journal of Anaesthesiology Clinical Pharmacology",
     "A & A Case Reports"}

PATIENT_CENTERED_OUTCOMES ==
    {"pain", "mortality", "morbidity", "complications", "recovery", "discharge",
     "quality of life", "functional outcome", "patient satisfaction",
     "length of stay", "readmission", "adverse events", "safety"}

CLINICALLY_ACTIONABLE_INTERVENTIONS ==
    {"airway", "intubation", "ventilation", "regional", "block", "analgesia",
     "anesthetic", "sedation", "hemodynamic", "fluid", "blood pressure",
     "hypotension", "hypertension", "cardiac output"}

DirectionWords == {"increase", "decrease", "higher", "lower", "better", "worse"}

\* scoring.py:78
PatientCentered(article) ==
    \E outcome \in PATIENT_CENTERED_OUTCOMES :
        Contains(lower(article.primary_outcome), outcome)

\* scoring.py:84
Actionable(article) ==
    \E intervention \in CLINICALLY_ACTIONABLE_INTERVENTIONS :
        Contains(lower(article.intervention), intervention)

\* scoring.py:89
HighQualityVenue(article) == article.journal \in HIGH_QUALITY_JOURNALS

\* re.search(r'\d+\.?\d*%', text)
SearchPercent(text) ==
    \E a \in 1..Len(text) : \E b \in a..(Len(text) - 1) :
        NumberSpan(text, a, b) /\ Char(text, b + 1) = "%"

\* re.search(r'\d+\.?\d*\s*(increase|decrease|higher|lower|better|worse)',
\*           text, re.IGNORECASE)
SearchDirection(text) ==
    \E a \in 1..Len(text) : \E b \in a..Len(text) : \E c \in b..Len(text) :
        /\ NumberSpan(text, a, b)
        /\ AllSpace(text, b + 1, c)
        /\ \E w \in DirectionWords :
             /\ c + Len(w) <= Len(text)
             /\ lower(SubSeq(text, c + 1, c + Len(w))) = w

\* scoring.py:94-98; effect_summary is <<>> (None) or <<text>>
QuantifiedEffect(article) ==
    /\ article.effect_summary # <<>>
    /\ \E k \in 1..Len(article.effect_summary[1]) :
           ~IsSpace(Char(article.effect_summary[1], k))
    /\ \/ SearchPercent(article.effect_summary[1])
       \/ SearchDirection(article.effect_summary[1])

Rule(applies, bonus, reason) ==
    IF applies THEN [score |-> bonus, parts |-> <<reason>>]
    ELSE [score |-> 0, parts |-> <<>>]

\* the mutant of SampleSizeRule: the two tiers are tested one after the other
SampleSizeRuleBothTiers(article) ==
    LET n == IF article.sample_size = <<>> THEN 0 ELSE article.sample_size[1]
        large == Rule(n >= 500, 30, "large sample size (>500)")
        moderate == Rule(n >= 100, 15, "moderate sample size (>100)")
    IN  [score |-> large.score + moderate.score, parts |-> large.parts \o moderate.parts]

\* scoring.py:62-68; sample_size is <<>> (None) or <<n>>
SampleSizeRule(article) ==
    IF article.sample_size # <<>> /\ article.sample_size[1] # 0
    THEN IF article.sample_size[1] >= 500
         THEN Rule(TRUE, 30, "large sample size (>500)")
         ELSE Rule(article.sample_size[1] >= 100, 15, "moderate sample size (>100)")
    ELSE Rule(FALSE, 0, "")

\* the mutant of Rules for the repeated call: the score already on the record
\* is counted in
RulesWithStoredScore(article) ==
    <<SampleSizeRule(article),
      Rule(article.score # <<>> /\ article.score[1] > 0,
           IF article.score = <<>> THEN 0 ELSE article.score[1], "previous score")>>

\* scoring.py:61-98, the rules in the order of the code
Rules(article) ==
    <<SampleSizeRule(article),
      Rule(article.multicenter = <<TRUE>>, 10, "multicenter study"),
      Rule(PatientCentered(article), 15, "patient-centered outcome"),
      Rule(Actionable(article), 15, "clinically actionable intervention"),
      Rule(HighQualityVenue(article), 20, "high-quality journal"),
      Rule(QuantifiedEffect(article), 10, "quantified effect")>>

RECURSIVE Accumulate(_, _)
Accumulate(rules, acc) ==
    IF rules = <<>> THEN acc
    ELSE Accumulate(Tail(rules), [score |-> acc.score + Head(rules).score,
                                  parts |-> acc.parts \o Head(rules).parts])

\* scoring.py:48-103
score_article(article) ==
    LET acc == Accumulate(Rules(article), [score |-> 0, parts |-> <<>>])
    IN  [score |-> acc.score,
         rationale |-> IF acc.parts # <<>> THEN Join(acc.parts, "; ")
                       ELSE "no standout features"]

SampleSizes == {<<>>, <<0>>, <<99>>, <<100>>, <<499>>, <<500>>, <<600>>}
Multicenters == {<<>>, <<FALSE>>, <<TRUE>>}
PrimaryOutcomes == {"30-day mortality", "Pain at 24 h", "lactate"}
Interventions == {"regional nerve block", "Intubation", "placebo"}
Journals == {"Anesthesiology", "anesthesiology", "The Lancet"}
EffectSummaries == {<<>>, <<"">>, <<"  ">>, <<"35% reduction">>, <<"2.5 Lower">>,
                    <<"improved">>, <<"12 mmHg">>}

\* the fields of an Article that scoring reads or writes
ScoredArticle ==
    [sample_size : SampleSizes, multicenter : Multicenters,
     primary_outcome : PrimaryOutcomes, intervention : Interventions,
     journal : Journals, effect_summary : EffectSummaries,
     score : {<<>>}, rationale : {<<>>}]

ScoreInit ==
    /\ SelIdle /\ ResIdle
    /\ callee = "score_article"
    /\ \E article \in ScoredArticle : frame = [article |-> article]
    /\ ret = <<>>

ScoreArticle ==
    /\ callee = "score_article" /\ ret = <<>>
    /\ ret' = <<score_article(frame.article)>>
    /\ UNCHANGED <<callee, frame, selvars, resvars>>

SpecScore == ScoreInit /\ [][ScoreArticle]_vars

\* the bonus table of the claim, on the conditions of the code
Bonus(cond, tenths) == IF cond THEN tenths ELSE 0

Reason(cond, text) == IF cond THEN <<text>> ELSE <<>>

SizeOf(article) == IF article.sample_size = <<>> THEN 0 ELSE article.sample_size[1]

ExpectedReasons(a) ==
    Reason(SizeOf(a) >= 500, "large sample size (>500)")
    \o Reason(SizeOf(a) >= 100 /\ SizeOf(a) < 500, "moderate sample size (>100)")
    \o Reason(a.multicenter = <<TRUE>>, "multicenter study")
    \o Reason(PatientCentered(a), "patient-centered outcome")
    \o Reason(Actionable(a), "clinically actionable intervention")
    \o Reason(HighQualityVenue(a), "high-quality journal")
    \o Reason(QuantifiedEffect(a), "quantified effect")

ExpectedScore(a) ==
    Bonus(SizeOf(a) >= 500, 30)
    + Bonus(SizeOf(a) >= 100 /\ SizeOf(a) < 500, 15)
    + Bonus(a.multicenter = <<TRUE>>, 10)
    + Bonus(PatientCentered(a), 15)
    + Bonus(Actionable(a), 15)
    + Bonus(HighQualityVenue(a), 20)
    + Bonus(QuantifiedEffect(a), 10)

\* C16: the score is the sum of the bonuses whose condition holds, the
\* sample-size tiers being exclusive; the rationale is the applied reasons in
\* rule order joined by "; ", or "no standout features" exactly when none
\* applies; all six features give 10.0.
C16_SumOfBonuses ==
    (callee = "score_article" /\ ret # <<>>) =>
        \E a \in {frame.article} : \E r \in {ret[1]} :
        \E reasons \in {ExpectedReasons(a)} : \E sum \in {ExpectedScore(a)} :
            /\ r.score = sum
            /\ (reasons # <<>>) => r.rationale = Join(reasons, "; ")
            /\ (r.rationale = "no standout features") <=> (reasons = <<>>)
            /\ (SizeOf(a) >= 500) =>
                  sum = 30 + ExpectedScore([a EXCEPT !.sample_size = <<>>])
            /\ (Len(reasons) = 6 /\ SizeOf(a) >= 500) => r.score = 100

\* the scenario of the specification: 600 patients, multicenter, "30-day
\* mortality", "regional nerve block", "Anesthesiology", "35% reduction"
C16_Witness ==
    /\ callee = "score_article" /\ ret # <<>>
    /\ frame.article.sample_size = <<600>>
    /\ frame.article.multicenter = <<TRUE>>
    /\ frame.article.primary_outcome = "30-day mortality"
    /\ frame.article.intervention = "regional nerve block"
    /\ frame.article.journal = "Anesthesiology"
    /\ frame.article.effect_summary = <<"35% reduction">>
    /\ ret[1].score = 100
    /\ ret[1].rationale = "large sample size (>500); multicenter study; patient-centered outcome; clinically actionable intervention; high-quality journal; quantified effect"

MaxCalls == 2        \* calls of score_articles on the same list

\* the candidates of the list runs
ListedArticle ==
    [sample_size : {<<>>, <<600>>}, multicenter : {<<TRUE>>},
     primary_outcome : {"30-day mortality"}, intervention : {"placebo"},
     journal : {"Anesthesiology", "The Lancet"},
     effect_summary : {<<>>, <<"35% reduction">>},
     score : {<<>>}, rationale : {<<>>}]

ScoreAllInit ==
    /\ SelIdle /\ ResIdle
    /\ callee = "score_articles"
    /\ \E list \in UNION {[1..n -> ListedArticle] : n \in 0..MaxScored} :
         frame = [articles |-> list, i |-> 1, scored_articles |-> <<>>, calls |-> 1]
    /\ ret = <<>>

\* scoring.py:117-121, one iteration; the Article object is updated in place
\* and the same object is appended
ScoreArticlesIterate ==
    /\ callee = "score_articles" /\ ret = <<>>
    /\ frame.i <= Len(frame.articles)
    /\ \E r \in {score_article(frame.articles[frame.i])} :
       \E article \in {[frame.articles[frame.i] EXCEPT
                          !.score = <<r.score>>, !.rationale = <<r.rationale>>]} :
         frame' = [frame EXCEPT !.articles[frame.i] = article,
                                !.scored_articles = Append(@, article),
                                !.i = @ + 1]
    /\ UNCHANGED <<callee, ret, selvars, resvars>>

\* scoring.py:123
ScoreArticlesReturn ==
    /\ callee = "score_articles" /\ ret = <<>>
    /\ frame.i > Len(frame.articles)
    /\ ret' = <<frame.scored_articles>>
    /\ UNCHANGED <<callee, frame, selvars, resvars>>

\* score_articles is called again on the list it returned
ScoreArticlesAgain ==
    /\ callee = "score_articles" /\ ret # <<>>
    /\ frame.calls < MaxCalls
    /\ frame' = [articles |-> ret[1], i |-> 1, scored_articles |-> <<>>,
                 calls |-> frame.calls + 1]
    /\ ret' = <<>>
    /\ UNCHANGED <<callee, selvars, resvars>>

ScoreAllNext == ScoreArticlesIterate \/ ScoreArticlesReturn \/ ScoreArticlesAgain

SpecScoreAll == ScoreAllInit /\ [][ScoreAllNext]_vars

Unscored(article) == [article EXCEPT !.score = <<>>, !.rationale = <<>>]

\* C17: scoring a candidate again, also after its score and rationale were
\* written back, gives the pair it carries; score_articles changes only score
\* and rationale and keeps the order and the length of the list.
C17_Idempotent ==
    /\ [](callee = "score_articles" =>
            \A k \in 1..(frame.i - 1) :
                \E a \in {frame.articles[k]} : \E r \in {score_article(a)} :
                    /\ a.score = <<r.score>> /\ a.rationale = <<r.rationale>>
                    /\ r = score_article(Unscored(a)))
    /\ [][callee = "score_articles" =>
            /\ Len(frame'.articles) = Len(frame.articles)
            /\ \A k \in DOMAIN frame.articles :
                 Unscored(frame'.articles[k]) = Unscored(frame.articles[k])
            /\ (ret' # <<>>) => ret'[1] = frame'.articles]_vars

\* a list of two candidates with different scores has been scored twice
C17_Witness ==
    /\ callee = "score_articles" /\ ret # <<>> /\ frame.calls = 2
    /\ Len(ret[1]) = 2
    /\ ret[1][1].score = <<25>> /\ ret[1][2].score = <<85>>

----------------------------------------------------------------------------
(* step2/text_clean.py: the sectioner (_map_section_headers and the line   *)
(* scan of _section_pdf_content)                                           *)

MaxLines == 3        \* most lines of an extracted text

RECURSIVE lstrip(_)
lstrip(s) == IF s # "" /\ IsSpace(Head(s)) THEN lstrip(Tail(s)) ELSE s

RECURSIVE rstrip(_)
rstrip(s) ==
    IF s # "" /\ IsSpace(Char(s, Len(s))) THEN rstrip(SubSeq(s, 1, Len(s) - 1)) ELSE s

\* str.strip()
strip(s) == rstrip(lstrip(s))

RECURSIVE DropDigits(_)
DropDigits(s) == IF s # "" /\ IsDigit(Head(s)) THEN DropDigits(Tail(s)) ELSE s

\* re.sub(r'^\d+\s*', '', s)
RemoveLeadingNumber(s) ==
    IF s # "" /\ IsDigit(Head(s)) THEN lstrip(DropDigits(s)) ELSE s

\* re.sub(r'\s*[:\-].*$', '', s) on one line: the text before the first
\* colon or hyphen and the white space in front of it
RemoveTrailingContent(s) ==
    IF \E k \in 1..Len(s) : Char(s, k) \in {":", "-"}
    THEN LET first == CHOOSE k \in 1..Len(s) :
                         /\ Char(s, k) \in {":", "-"}
                         /\ \A l \in 1..(k - 1) : Char(s, l) \notin {":", "-"}
         IN  rstrip(SubSeq(s, 1, first - 1))
    ELSE s

\* text_clean.py:38-45, in the order of the dict
SECTION_SYNONYMS ==
    << [section |-> "abstract", synonyms |-> {"abstract", "summary"}],
       [section |-> "introduction",
        synonyms |-> {"introduction", "background", "rationale", "purpose"}],
       [section |-> "methods",
        synonyms |-> {"methods", "materials and methods", "patients and methods",
                      "experimental procedures", "study design"}],
       [section |-> "results",
        synonyms |-> {"results", "findings", "outcome", "outcomes"}],
       [section |-> "discussion",
        synonyms |-> {"discussion", "interpretation", "clinical implications",
                      "limitations"}],
       [section |-> "conclusion", synonyms |-> {"conclusion", "conclusions", "summary"}] >>

\* text_clean.py:401  synonym in header_lower or header_lower in synonym
SynonymMatch(header_lower, synonym) ==
    Contains(header_lower, synonym) \/ Contains(synonym, header_lower)

\* text_clean.py:394-402 for one entry of the dict
SectionMatches(header_lower, entry) ==
    \/ header_lower = entry.section
    \/ \E synonym \in entry.synonyms : SynonymMatch(header_lower, synonym)

\* text_clean.py:394-404 on the normalised header; "" is None
FirstSection(header_lower) ==
    IF \E k \in DOMAIN SECTION_SYNONYMS : SectionMatches(header_lower, SECTION_SYNONYMS[k])
    THEN SECTION_SYNONYMS[CHOOSE k \in DOMAIN SECTION_SYNONYMS :
             /\ SectionMatches(header_lower, SECTION_SYNONYMS[k])
             /\ \A l \in 1..(k - 1) : ~SectionMatches(header_lower, SECTION_SYNONYMS[l])].section
    ELSE ""

\* text_clean.py:378-404
_map_section_headers(header) ==
    FirstSection(RemoveTrailingContent(RemoveLeadingNumber(strip(lower(header)))))

\* the texts of the lines that pages are made of
Lines ==
    {"Materials and Methods", "Background", "We enrolled 40 patients.",
     " RESULTS: ", "Appendix", "12", ""}

EmptySections ==
    [abstract |-> "", introduction |-> "", methods |-> "", results |-> "",
     discussion |-> "", conclusion |-> ""]

SectionInit ==
    /\ SelIdle /\ ResIdle
    /\ callee = "_section_pdf_content"
    /\ \E text_lines \in UNION {[1..n -> Lines] : n \in 0..MaxLines} :
         frame = [text_lines |-> text_lines, i |-> 1, sections |-> EmptySections,
                  current_section |-> "abstract", current_content |-> <<>>]
    /\ ret = <<>>

\* text_clean.py:335-349, one iteration of the loop
SectionLine ==
    /\ callee = "_section_pdf_content" /\ ret = <<>>
    /\ frame.i <= Len(frame.text_lines)
    /\ \E line \in {strip(frame.text_lines[frame.i])} :
         IF line = "" THEN frame' = [frame EXCEPT !.i = @ + 1]
         ELSE \E header_match \in {_map_section_headers(line)} :
              IF header_match # ""
              THEN frame' = [frame EXCEPT
                     !.i = @ + 1,
                     !.sections = IF frame.current_content # <<>>
                                  THEN [@ EXCEPT ![frame.current_section] =
                                          strip(Join(frame.current_content, "\n"))]
                                  ELSE @,
                     !.current_content = <<>>,
                     !.current_section = header_match]
              ELSE frame' = [frame EXCEPT !.i = @ + 1,
                                          !.current_content = Append(@, line)]
    /\ UNCHANGED <<callee, ret, selvars, resvars>>

\* text_clean.py:351-355
SectionReturn ==
    /\ callee = "_section_pdf_content" /\ ret = <<>>
    /\ frame.i > Len(frame.text_lines)
    /\ ret' = << IF frame.current_content # <<>>
                 THEN [frame.sections EXCEPT ![frame.current_section] =
                         strip(Join(frame.current_content, "\n"))]
                 ELSE frame.sections >>
    /\ UNCHANGED <<callee, frame, selvars, resvars>>

SectionNext == SectionLine \/ SectionReturn

SpecSection == SectionInit /\ [][SectionNext]_vars

\* the line contains, or is, a section name or one of the synonyms
NamesSection(line) ==
    \E k \in DOMAIN SECTION_SYNONYMS :
        \E name \in SECTION_SYNONYMS[k].synonyms \cup {SECTION_SYNONYMS[k].section} :
            Contains(lower(line), name)

\* C18 (as claimed): the scan starts in "abstract"; "Materials and Methods"
\* switches to "methods" and "Background" to "introduction"; a non-empty line
\* that neither is nor contains a section name or synonym leaves the current
\* section unchanged and is added to its content.
C18_SectionMapping ==
    /\ [](callee = "_section_pdf_content" /\ frame.i = 1 => frame.current_section = "abstract")
    /\ [][(callee = "_section_pdf_content" /\ frame'.i = frame.i + 1) =>
            \E line \in {strip(frame.text_lines[frame.i])} :
              /\ line = "Materials and Methods" => frame'.current_section = "methods"
              /\ line = "Background" => frame'.current_section = "introduction"
              /\ (line # "" /\ ~NamesSection(line)) =>
                    /\ frame'.current_section = frame.current_section
                    /\ frame'.current_content = Append(frame.current_content, line)]_vars

----------------------------------------------------------------------------
(* step2/text_clean.py: select_excerpts_for_prompt and                      *)
(* _select_excerpts_from_section                                           *)

MaxParagraphs == 3   \* most paragraphs of a section text

\* text_clean.py:442-448  len(text) // 4
_estimate_tokens(text) == Len(text) \div 4

\* text_clean.py:464-471  int(max_tokens * 0.10) ...; for the budgets drawn
\* here the float product truncates to the exact integer quotient
_allocate_token_budget(max_tokens) ==
    [abstract |-> (max_tokens * 10) \div 100,
     introduction |-> (max_tokens * 10) \div 100,
     methods |-> (max_tokens * 25) \div 100,
     results |-> (max_tokens * 35) \div 100,
     discussion |-> (max_tokens * 15) \div 100,
     conclusion |-> (max_tokens * 5) \div 100]

KEY_TERMS ==
    {"effect size", "confidence interval", "p-value", "subgroup", "blinding",
     "allocation", "sample size", "attrition", "primary outcome",
     "secondary outcome", "hypothesis"}

\* str.split(sep) for a separator of two characters
RECURSIVE Split(_, _)
Split(text, sep) ==
    IF \E k \in 1..(Len(text) - 1) : SubSeq(text, k, k + 1) = sep
    THEN LET first == CHOOSE k \in 1..(Len(text) - 1) :
                         /\ SubSeq(text, k, k + 1) = sep
                         /\ \A l \in 1..(k - 1) : SubSeq(text, l, l + 1) # sep
         IN  <<SubSeq(text, 1, first - 1)>> \o Split(SubSeq(text, first + 2, Len(text)), sep)
    ELSE <<text>>

\* re.search(r'\d+\.\d+', paragraph)
SearchDecimal(paragraph) ==
    \E k \in 2..(Len(paragraph) - 1) :
        /\ Char(paragraph, k) = "."
        /\ IsDigit(Char(paragraph, k - 1)) /\ IsDigit(Char(paragraph, k + 1))

\* text_clean.py:501-513, the score counted in halves (a key term is 2, the
\* number bonus 1)
ParagraphScore(paragraph) ==
    2 * Cardinality({term \in KEY_TERMS : Contains(lower(paragraph), term)})
    + (IF SearchDecimal(paragraph) THEN 1 ELSE 0)

\* the mutant of SortByScore: the paragraphs stay in document order
SortByDocumentOrder(scored) == scored

\* text_clean.py:517  list.sort(key=score, reverse=True): stable, so equal
\* scores keep their order
RECURSIVE SortByScore(_)
SortByScore(scored) ==
    IF scored = <<>> THEN <<>>
    ELSE LET best == CHOOSE k \in DOMAIN scored :
                        /\ \A l \in DOMAIN scored : scored[l].score <= scored[k].score
                        /\ \A l \in 1..(k - 1) : scored[l].score < scored[k].score
         IN  <<scored[best]>> \o
             SortByScore([k \in 1..(Len(scored) - 1) |->
                             IF k < best THEN scored[k] ELSE scored[k + 1]])

\* text_clean.py:497-517
scored_paragraphs(section_text) ==
    LET paragraphs == Split(section_text, "\n\n")
    IN  SortByScore([k \in DOMAIN paragraphs |->
                        [paragraph |-> paragraphs[k],
                         score |-> ParagraphScore(paragraphs[k])]])

SectionNames ==
    <<"abstract", "introduction", "methods", "results", "discussion", "conclusion">>

Paragraphs ==
    {"Pain ok", "HR 0.80, p-value 0.04", "Blinding was kept.",
     "The primary outcome was pain at rest after 24 hours."}

\* the texts of a section: paragraphs separated by blank lines
SectionTexts ==
    {Join(ps, "\n\n") : ps \in UNION {[1..n -> Paragraphs] : n \in 0..MaxParagraphs}}

TokenLimits == {20, 32, 48}

ExcerptInit ==
    /\ SelIdle /\ ResIdle
    /\ callee = "select_excerpts_for_prompt"
    /\ \E max_tokens \in TokenLimits : \E name \in DOMAIN EmptySections :
       \E text \in SectionTexts :
         frame = [sectioned_text |-> [EmptySections EXCEPT ![name] = text],
                  max_tokens |-> max_tokens,
                  token_allocation |-> _allocate_token_budget(max_tokens),
                  excerpted_text |-> EmptySections,
                  section |-> 1, pc |-> "section",
                  scored_paragraphs |-> <<>>, j |-> 1,
                  selected_paragraphs |-> <<>>, current_tokens |-> 0,
                  truncated_paragraph |-> ""]
    /\ ret = <<>>

section_name == SectionNames[frame.section]

allocated_tokens == frame.token_allocation[section_name]

\* text_clean.py:114-118 and 490-521: the next section; an empty text gives ""
ExcerptSection ==
    /\ callee = "select_excerpts_for_prompt" /\ ret = <<>>
    /\ frame.pc = "section" /\ frame.section <= Len(SectionNames)
    /\ IF frame.sectioned_text[section_name] = ""
       THEN frame' = [frame EXCEPT !.excerpted_text[section_name] = "",
                                   !.section = @ + 1]
       ELSE frame' = [frame EXCEPT
                !.pc = "select",
                !.scored_paragraphs = scored_paragraphs(frame.sectioned_text[section_name]),
                !.j = 1, !.selected_paragraphs = <<>>, !.current_tokens = 0,
                !.truncated_paragraph = ""]
    /\ UNCHANGED <<callee, ret, selvars, resvars>>

\* text_clean.py:523-527
ExcerptAccept ==
    /\ callee = "select_excerpts_for_prompt" /\ frame.pc = "select"
    /\ frame.j <= Len(frame.scored_paragraphs)
    /\ \E paragraph \in {frame.scored_paragraphs[frame.j].paragraph} :
         /\ frame.current_tokens + _estimate_tokens(paragraph) <= allocated_tokens
         /\ frame' = [frame EXCEPT
                !.selected_paragraphs = Append(@, paragraph),
                !.current_tokens = @ + _estimate_tokens(paragraph),
                !.j = @ + 1]
    /\ UNCHANGED <<callee, ret, selvars, resvars>>

\* text_clean.py:528-536, more than 10 tokens remain
ExcerptTruncate ==
    /\ callee = "select_excerpts_for_prompt" /\ frame.pc = "select"
    /\ frame.j <= Len(frame.scored_paragraphs)
    /\ \E paragraph \in {frame.scored_paragraphs[frame.j].paragraph} :
       \E remaining_tokens \in {allocated_tokens - frame.current_tokens} :
         /\ frame.current_tokens + _estimate_tokens(paragraph) > allocated_tokens
         /\ remaining_tokens > 10
         /\ \E truncated \in {SubSeq(paragraph, 1, remaining_tokens * 4) \o "..."} :
              frame' = [frame EXCEPT
                !.selected_paragraphs = Append(@, truncated),
                !.truncated_paragraph = truncated,
                !.pc = "join"]
    /\ UNCHANGED <<callee, ret, selvars, resvars>>

\* text_clean.py:528-536, at most 10 tokens remain
ExcerptBreak ==
    /\ callee = "select_excerpts_for_prompt" /\ frame.pc = "select"
    /\ frame.j <= Len(frame.scored_paragraphs)
    /\ frame.current_tokens
         + _estimate_tokens(frame.scored_paragraphs[frame.j].paragraph) > allocated_tokens
    /\ allocated_tokens - frame.current_tokens <= 10
    /\ frame' = [frame EXCEPT !.pc = "join"]
    /\ UNCHANGED <<callee, ret, selvars, resvars>>

\* text_clean.py:538 and 117
ExcerptJoin ==
    /\ callee = "select_excerpts_for_prompt"
    /\ \/ frame.pc = "join"
       \/ frame.pc = "select" /\ frame.j > Len(frame.scored_paragraphs)
    /\ frame' = [frame EXCEPT
           !.excerpted_text[section_name] = Join(frame.selected_paragraphs, "\n\n"),
           !.section = @ + 1, !.pc = "section"]
    /\ UNCHANGED <<callee, ret, selvars, resvars>>

\* text_clean.py:121
ExcerptReturn ==
    /\ callee = "select_excerpts_for_prompt" /\ ret = <<>>
    /\ frame.pc = "section" /\ frame.section > Len(SectionNames)
    /\ ret' = <<frame.excerpted_text>>
    /\ UNCHANGED <<callee, frame, selvars, resvars>>

ExcerptNext ==
    \/ ExcerptSection \/ ExcerptAccept \/ ExcerptTruncate
    \/ ExcerptBreak \/ ExcerptJoin \/ ExcerptReturn

SpecExcerpt == ExcerptInit /\ [][ExcerptNext]_vars

\* C19 (as claimed): the estimate of a section's excerpt is at most its
\* allotment when no paragraph was truncated, and exceeds it by at most the
\* ellipsis of the truncated paragraph (three characters, one token)
\* otherwise.
C19_WithinAllotment ==
    [][(callee = "select_excerpts_for_prompt" /\ frame'.section = frame.section + 1) =>
         _estimate_tokens(frame'.excerpted_text[section_name]) <=
            allocated_tokens
            + (IF frame.truncated_paragraph # "" /\ frame.pc = "join"
               THEN 1 ELSE 0)]_vars

----------------------------------------------------------------------------
(* step2/analyze.py: analyze_rct and _detect_red_flags.  A JSON value of   *)
(* a record is [kind, num, text]: kind "missing" is an absent key, "null"  *)
(* None, "num" a number (num; estimates, bounds and p in thousandths),     *)
(* "str" a string (text), "other" a non-empty list where none is expected. *)

MaxDeviations == 2   \* fields of a record that differ from the well-formed one

NoKey == [kind |-> "missing", num |-> 0, text |-> ""]
Null == [kind |-> "null", num |-> 0, text |-> ""]
Num(n) == [kind |-> "num", num |-> n, text |-> ""]
Str(t) == [kind |-> "str", num |-> 0, text |-> t]
Other == [kind |-> "other", num |-> 0, text |-> ""]

\* bool(v); article.get(key) of an absent key is None
Truthy(v) ==
    \/ v.kind = "num" /\ v.num # 0
    \/ v.kind = "str" /\ v.text # ""
    \/ v.kind = "other"

\* the outcome of one rule: it raised, or the flags it appended
Raises == [raises |-> TRUE, flags |-> <<>>]
Flags(fs) == [raises |-> FALSE, flags |-> fs]

Abs(n) == IF n < 0 THEN -n ELSE n

\* analyze.py:136-139
UnderpoweredRule(article) ==
    IF article.sample_size.kind \in {"missing", "null"} THEN Flags(<<>>)
    ELSE IF article.sample_size.kind # "num" THEN Raises
    ELSE IF article.sample_size.num < 100
    THEN Flags(<<"Underpowered signal: sample size < 100 for superiority trial">>)
    ELSE Flags(<<>>)

\* an effect_estimate is [kind, text, value, ci, p]: kind "dict" with the
\* values of its keys, or "missing", "null", "num", "str" (text)
EffectTruthy(e) ==
    \/ e.kind = "num"
    \/ e.kind = "str" /\ e.text # ""
    \/ e.kind = "dict" /\ (e.value.kind # "missing" \/ e.ci.kind # "missing"
                           \/ e.p.kind # "missing")

\* key in effect_estimate, for a dict or a string
HasKey(e, key, v) ==
    IF e.kind = "dict" THEN v.kind # "missing" ELSE Contains(e.text, key)

\* analyze.py:141-151
ImpreciseRule(article) ==
    LET e == article.effect_estimate
    IN  IF ~EffectTruthy(e) THEN Flags(<<>>)
        ELSE IF e.kind = "num" THEN Raises
        ELSE IF ~(HasKey(e, "value", e.value) /\ HasKey(e, "ci", e.ci)) THEN Flags(<<>>)
        ELSE IF e.kind = "str" THEN Raises
        ELSE IF e.ci.kind # "list" THEN Raises
        ELSE IF Len(e.ci.items) # 2 THEN Flags(<<>>)
        ELSE IF \E k \in 1..2 : e.ci.items[k].kind # "num" THEN Raises
        ELSE IF e.value.kind # "num" THEN Raises
        ELSE IF e.value.num # 0
                /\ Abs(e.ci.items[2].num - e.ci.items[1].num) > Abs(e.value.num)
        THEN Flags(<<"Imprecise effect: wide confidence interval">>)
        ELSE Flags(<<>>)

\* the mutant of BorderlineRule: the bounds 0.045 and 0.06 are excluded
BorderlineRuleExclusive(article) ==
    LET e == article.effect_estimate
    IN  IF ~EffectTruthy(e) THEN Flags(<<>>)
        ELSE IF ~HasKey(e, "p", e.p) THEN Flags(<<>>)
        ELSE IF e.kind = "str" THEN Raises
        ELSE IF e.p.kind = "null" THEN Flags(<<>>)
        ELSE IF e.p.kind # "num" THEN Raises
        ELSE IF 45 < e.p.num /\ e.p.num < 60
        THEN Flags(<<"Borderline p-value: fragile significance">>)
        ELSE Flags(<<>>)

\* analyze.py:153-157; p in thousandths, 0.045 <= p <= 0.06
BorderlineRule(article) ==
    LET e == article.effect_estimate
    IN  IF ~EffectTruthy(e) THEN Flags(<<>>)
        ELSE IF ~HasKey(e, "p", e.p) THEN Flags(<<>>)
        ELSE IF e.kind = "str" THEN Raises
        ELSE IF e.p.kind = "null" THEN Flags(<<>>)
        ELSE IF e.p.kind # "num" THEN Raises
        ELSE IF 45 <= e.p.num /\ e.p.num <= 60
        THEN Flags(<<"Borderline p-value: fragile significance">>)
        ELSE Flags(<<>>)

\* analyze.py:159-162
MultiplicityRule(article) ==
    IF ~Truthy(article.primary_outcome)
    THEN Flags(<<"Multiplicity/selective reporting risk: primary outcome unclear">>)
    ELSE IF article.primary_outcome.kind # "str" THEN Raises
    ELSE IF strip(article.primary_outcome.text) = ""
    THEN Flags(<<"Multiplicity/selective reporting risk: primary outcome unclear">>)
    ELSE Flags(<<>>)

\* analyze.py:164-172
DesignOpacityRule(article) ==
    LET issues == (IF ~Truthy(article.allocation) THEN <<"allocation concealment">> ELSE <<>>)
                  \o (IF ~Truthy(article.blinding) THEN <<"blinding">> ELSE <<>>)
    IN  IF issues # <<>> THEN Flags(<<"Design opacity: missing " \o Join(issues, ", ")>>)
        ELSE Flags(<<>>)

\* analyze.py:174-178
ExternalValidityRule(article) ==
    IF article.population.kind \notin {"missing", "str"} THEN Raises
    ELSE IF Truthy(article.centers) /\ article.centers.kind # "str" THEN Raises
    ELSE LET population == lower(article.population.text)
             centers == IF Truthy(article.centers) THEN lower(article.centers.text) ELSE ""
         IN  IF (Contains(centers, "single") \/ Contains(population, "single"))
                /\ Contains(population, "specific")
             THEN Flags(<<"External validity concern: narrow population">>)
             ELSE Flags(<<>>)

\* analyze.py:180-184
FundingRule(article) ==
    IF Truthy(article.funding) /\ article.funding.kind # "str" THEN Raises
    ELSE LET funding == IF Truthy(article.funding) THEN lower(article.funding.text) ELSE ""
         IN  IF Contains(funding, "industry") \/ Contains(funding, "commercial")
             THEN Flags(<<"Potential bias: industry funding declared">>)
             ELSE Flags(<<>>)

\* the rules run in order; the first exception leaves the function
RECURSIVE RunRules(_, _)
RunRules(rules, red_flags) ==
    IF rules = <<>> THEN Flags(red_flags)
    ELSE IF Head(rules).raises THEN Raises
    ELSE RunRules(Tail(rules), red_flags \o Head(rules).flags)

\* analyze.py:124-186
_detect_red_flags(article) ==
    RunRules(<<UnderpoweredRule(article), ImpreciseRule(article), BorderlineRule(article),
               MultiplicityRule(article), DesignOpacityRule(article),
               ExternalValidityRule(article), FundingRule(article)>>, <<>>)

NoEffect(kind, text) ==
    [kind |-> kind, text |-> text, value |-> NoKey,
     ci |-> [kind |-> "missing", items |-> <<>>], p |-> NoKey]

Effect(value, ci, p) == [kind |-> "dict", text |-> "", value |-> value, ci |-> ci, p |-> p]

Interval(low, high) == [kind |-> "list", items |-> <<Num(low), Num(high)>>]

\* a well-formed ArticleCard (title stands for the required text fields the
\* rules do not read)
WellFormed ==
    [title |-> Str("T"), sample_size |-> Num(200),
     effect_estimate |-> Effect(Num(800), Interval(500, 1200), Num(50)),
     primary_outcome |-> Str("pain"), population |-> Str("Adults"),
     centers |-> Str("two centers"), funding |-> Str("public"),
     allocation |-> Str("sealed envelopes"), blinding |-> Str("double")]

\* what a record may hold instead, per field
FieldValues ==
    [title |-> {NoKey, Null},
     sample_size |-> {NoKey, Null, Num(50), Str("fifty")},
     effect_estimate |->
        {NoEffect("missing", ""), NoEffect("null", ""), NoEffect("str", "HR 0.8"),
         NoEffect("str", "p=0.04"), NoEffect("num", ""),
         Effect(Num(200), Interval(500, 1200), NoKey),
         Effect(Str("0.8"), Interval(500, 1200), NoKey),
         Effect(Num(800), [kind |-> "null", items |-> <<>>], NoKey),
         Effect(NoKey, [kind |-> "missing", items |-> <<>>], Str("0.05"))},
     primary_outcome |-> {NoKey, Null, Str("  "), Num(5)},
     population |-> {NoKey, Null, Str("Single specific cohort")},
     centers |-> {NoKey, Null, Str("Single center"), Num(3)},
     funding |-> {NoKey, Null, Str("Industry grant"), Num(1)},
     allocation |-> {NoKey, Null},
     blinding |-> {NoKey, Str("")}]

Fields == DOMAIN WellFormed

\* the records that differ from the well-formed one in at most n fields
RECURSIVE Deviating(_, _)
Deviating(cards, n) ==
    IF n = 0 THEN cards
    ELSE Deviating(cards \cup UNION {{[c EXCEPT ![f] = v] : v \in FieldValues[f]} :
                                        c \in cards, f \in Fields}, n - 1)

ArticleCards == Deviating({WellFormed}, MaxDeviations)

\* ArticleCardModel(**article) succeeds (analyze.py:85-121): the text fields
\* are strings, the optional ones may be absent or None, sample_size is an
\* integer, effect_estimate a dict whose content is not enforced
Validates(article) ==
    /\ \A f \in {"title", "primary_outcome", "population"} : article[f].kind = "str"
    /\ \A f \in {"centers", "funding", "allocation", "blinding"} :
           article[f].kind \in {"missing", "null", "str"}
    /\ article.sample_size.kind \in {"missing", "null", "num"}
    /\ article.effect_estimate.kind \in {"missing", "null", "dict"}

\* validated_article.model_dump(): every field of the schema is present
model_dump(article) ==
    [f \in Fields |->
        IF article[f].kind # "missing" THEN article[f]
        ELSE IF f = "effect_estimate" THEN NoEffect("null", "") ELSE Null]

AnalyzeInit ==
    /\ SelIdle /\ ResIdle
    /\ callee = "analyze_rct"
    /\ \E article \in ArticleCards : \E pydantic \in BOOLEAN :
         frame = [article |-> article, pydantic |-> pydantic, pc |-> "validate",
                  validated |-> FALSE, red_flags |-> <<>>]
    /\ ret = <<>>

\* analyze.py:361-368; without pydantic ArticleCardModel is a plain object
\* subclass and the call raises TypeError, which is caught as well
AnalyzeValidate ==
    /\ callee = "analyze_rct" /\ frame.pc = "validate"
    /\ IF frame.pydantic /\ Validates(frame.article)
       THEN frame' = [frame EXCEPT !.article = model_dump(frame.article),
                                   !.validated = TRUE, !.pc = "detect"]
       ELSE frame' = [frame EXCEPT !.pc = "detect"]
    /\ UNCHANGED <<callee, ret, selvars, resvars>>

\* analyze.py:371; an exception of _detect_red_flags leaves analyze_rct
AnalyzeDetect ==
    /\ callee = "analyze_rct" /\ frame.pc = "detect"
    /\ \E r \in {_detect_red_flags(frame.article)} :
         IF r.raises THEN frame' = [frame EXCEPT !.pc = "raised"]
         ELSE frame' = [frame EXCEPT !.red_flags = r.flags, !.pc = "prompt"]
    /\ UNCHANGED <<callee, ret, selvars, resvars>>

\* analyze.py:373-401 with the default settings: prompt, model call, red-flag
\* block, result
AnalyzeReturn ==
    /\ callee = "analyze_rct" /\ frame.pc = "prompt"
    /\ frame' = [frame EXCEPT !.pc = "returned"]
    /\ ret' = <<[red_flags |-> frame.red_flags, used_model |-> "gpt-5-thinking",
                 red_flags_block |-> frame.red_flags # <<>>]>>
    /\ UNCHANGED <<callee, selvars, resvars>>

AnalyzeNext == AnalyzeValidate \/ AnalyzeDetect \/ AnalyzeReturn

SpecAnalyze == AnalyzeInit /\ [][AnalyzeNext]_vars

\* C20 (as claimed): on a record that failed validation analyze_rct never
\* raises.
C20_UnvalidatedNeverRaises ==
    (callee = "analyze_rct" /\ ~frame.validated) => frame.pc # "raised"

----------------------------------------------------------------------------
(* step1/filters.py: the six predicates and filter_articles                *)

MaxFiltered == 2   \* longest list handed to filter_articles

AnyIn(keywords, text) == \E keyword \in keywords : Contains(text, keyword)

\* filters.py:58  (article.title + " " + article.abstract).lower()
TitleAndAbstract(article) == lower(article.title \o " " \o article.abstract)

\* filters.py:8-31
is_rct_article(article) ==
    \/ AnyIn({"randomized", "randomised", "randomized controlled trial", "rct"},
             lower(article.title))
    \/ Cardinality({keyword \in
            {"randomized", "randomised", "randomly assigned", "controlled trial",
             "clinical trial", "double blind", "placebo", "allocation",
             "intervention group"} :
            Contains(lower(article.abstract), keyword)}) >= 2

human_keywords == {"human", "clinical", "patient", "volunteer", "randomized controlled trial"}

animal_keywords == {"mouse", "rat", "animal", "mice", "rodent"}

\* filters.py:34-68
is_human_study(article) ==
    LET mesh == lower(Join(article.mesh_terms, " "))
        mesh_human == AnyIn(human_keywords, mesh)
        mesh_animal == AnyIn(animal_keywords, mesh)
        text == TitleAndAbstract(article)
        has_human_terms == AnyIn(human_keywords, text)
        has_animal_terms == AnyIn(animal_keywords, text)
    IN  IF mesh_animal /\ ~mesh_human THEN FALSE
        ELSE IF has_animal_terms /\ ~has_human_terms THEN FALSE
        ELSE has_human_terms \/ ~has_animal_terms

anesthesia_keywords ==
    {"anesthesia", "anaesthesia", "anesthesiology", "perioperative",
     "peri-operative", "regional anesthesia", "airway", "intubation",
     "nerve block", "analgesia", "surgery", "operative", "surgical"}

\* filters.py:71-94
is_anesthesia_related(article) ==
    \/ \E k \in DOMAIN article.mesh_terms :
           AnyIn(anesthesia_keywords, lower(article.mesh_terms[k]))
    \/ AnyIn(anesthesia_keywords, TitleAndAbstract(article))

\* filters.py:97-107
is_preferred_language(article) == lower(article.language) \in {"english", "french"}

protocol_keywords ==
    {"protocol", "study protocol", "letter", "editorial", "commentary",
     "correspondence", "discussion"}

\* filters.py:110-130
is_protocol_or_letter(article, config) ==
    IF config.allow_protocols THEN FALSE
    ELSE AnyIn(protocol_keywords, TitleAndAbstract(article))

pediatric_keywords ==
    {"pediatric", "paediatric", "child", "infant", "neonate", "newborn",
     "adolescent", "children", "kids", "under 18"}

\* the mutant of is_pediatric_only: the setting is not consulted
is_pediatric_only_unconditional(article, config) ==
    AnyIn(pediatric_keywords, TitleAndAbstract(article))

\* filters.py:133-153
is_pediatric_only(article, config) ==
    IF config.allow_pediatric THEN FALSE
    ELSE AnyIn(pediatric_keywords, TitleAndAbstract(article))

\* filters.py:196-201, the condition of the loop body
Passes(article, config) ==
    /\ is_rct_article(article)
    /\ is_human_study(article)
    /\ is_anesthesia_related(article)
    /\ is_preferred_language(article)
    /\ ~is_protocol_or_letter(article, config)
    /\ ~is_pediatric_only(article, config)

\* filters.py:156-180 as a function of the list
RECURSIVE DedupFrom(_, _, _, _)
DedupFrom(list, i, seen_dois, seen_pmids) ==
    IF i > Len(list) THEN <<>>
    ELSE LET article == list[i]
         IN  IF Unseen(Identifier(article), seen_dois, seen_pmids)
             THEN <<article>> \o
                  DedupFrom(list, i + 1,
                            IF article.doi # "" THEN seen_dois \cup {article.doi} ELSE seen_dois,
                            IF article.pmid # "" THEN seen_pmids \cup {article.pmid} ELSE seen_pmids)
             ELSE DedupFrom(list, i + 1, seen_dois, seen_pmids)

deduplicate_articles(list) == DedupFrom(list, 1, {}, {})

Paper(title, abstract, mesh_terms, language, d, p) ==
    [title |-> title, abstract |-> abstract, mesh_terms |-> mesh_terms,
     language |-> language, doi |-> d, pmid |-> p]

\* candidates as PubMed delivers them: one that passes, and one per predicate
\* that fails it
Papers ==
    {Paper("Randomized trial of nerve block", "Patients had surgery.",
           <<"Humans", "Nerve Block">>, "English", "d1", "p1"),
     Paper("Airway management", "A placebo was given to patients.",
           <<"Humans">>, "English", "", "p2"),
     Paper("Randomised analgesia after surgery", "Patients were randomised.",
           <<"Rats">>, "English", "d2", "p3"),
     Paper("Randomized operative care", "No difference was found.",
           <<>>, "French", "d2", "p4"),
     Paper("Randomized surgery trial", "Patients had surgery.",
           <<"Humans">>, "German", "", "p1"),
     Paper("Study protocol of a randomized surgical trial", "Patients will be enrolled.",
           <<"Humans">>, "English", "", "p2"),
     Paper("Randomized airway trial in children", "Patients had intubation.",
           <<"Humans", "Child">>, "english", "", "p3"),
     Paper("Randomized diet trial", "Patients ate a placebo.",
           <<"Humans">>, "English", "", "p4")}

PaperLists == UNION {[1..n -> Papers] : n \in 0..MaxFiltered}

FilterInit ==
    /\ SelIdle /\ ResIdle
    /\ callee = "filter_articles"
    /\ \E list \in PaperLists, allow_protocols, allow_pediatric \in BOOLEAN :
         frame = [articles |-> list,
                  settings |-> [allow_protocols |-> allow_protocols,
                                allow_pediatric |-> allow_pediatric],
                  i |-> 1, filtered_articles |-> <<>>, unique_articles |-> <<>>,
                  pc |-> "loop"]
    /\ ret = <<>>

\* filters.py:194-202, one iteration of the loop
FilterIterate ==
    /\ callee = "filter_articles" /\ frame.pc = "loop"
    /\ frame.i <= Len(frame.articles)
    /\ frame' = [frame EXCEPT
            !.i = @ + 1,
            !.filtered_articles =
                IF Passes(frame.articles[frame.i], frame.settings)
                THEN Append(@, frame.articles[frame.i]) ELSE @]
    /\ UNCHANGED <<callee, ret, selvars, resvars>>

\* filters.py:205
FilterDeduplicate ==
    /\ callee = "filter_articles" /\ frame.pc = "loop"
    /\ frame.i > Len(frame.articles)
    /\ frame' = [frame EXCEPT
            !.unique_articles = deduplicate_articles(frame.filtered_articles),
            !.pc = "deduplicated"]
    /\ UNCHANGED <<callee, ret, selvars, resvars>>

\* filters.py:207
FilterReturn ==
    /\ callee = "filter_articles" /\ frame.pc = "deduplicated"
    /\ ret = <<>>
    /\ ret' = <<frame.unique_articles>>
    /\ UNCHANGED <<callee, frame, selvars, resvars>>

FilterNext == FilterIterate \/ FilterDeduplicate \/ FilterReturn

SpecFilter == FilterInit /\ [][FilterNext]_vars

\* the six conditions as the claim words them, on the record's own text
Randomized(a) ==
    \/ AnyIn({"randomized", "randomised", "rct"}, lower(a.title))
    \/ \E k1, k2 \in {"randomized", "randomised", "randomly assigned",
                      "controlled trial", "clinical trial", "double blind",
                      "placebo", "allocation", "intervention group"} :
           k1 # k2 /\ Contains(lower(a.abstract), k1) /\ Contains(lower(a.abstract), k2)

ProtocolText(a) == AnyIn(protocol_keywords, TitleAndAbstract(a))

PediatricText(a) == AnyIn(pediatric_keywords, TitleAndAbstract(a))

AllSixHold(a, config) ==
    /\ Randomized(a)
    /\ is_human_study(a)
    /\ is_anesthesia_related(a)
    /\ lower(a.language) \in {"english", "french"}
    /\ (config.allow_protocols \/ ~ProtocolText(a))
    /\ (config.allow_pediatric \/ ~PediatricText(a))

\* the indices of the input that satisfy the six conditions, in input order
RECURSIVE Kept(_, _, _)
Kept(list, config, i) ==
    IF i > Len(list) THEN <<>>
    ELSE (IF AllSixHold(list[i], config) THEN <<list[i]>> ELSE <<>>)
         \o Kept(list, config, i + 1)

\* C21: once the loop of filter_articles has ended, the filtered list is
\* exactly the input candidates for which all six predicates hold, in input
\* order (a protocol passes when allow_protocols is set, a pediatric study
\* when allow_pediatric is set), and the value returned is that list
\* deduplicated.
C21_ExactlyThePassing ==
    (callee = "filter_articles" /\ frame.pc = "deduplicated") =>
        /\ frame.filtered_articles = Kept(frame.articles, frame.settings, 1)
        /\ ret # <<>> => ret[1] = deduplicate_articles(frame.filtered_articles)

\* the call has returned; of a protocol and a pediatric study the first was
\* kept because protocols are allowed, the second rejected because pediatric
\* studies are not
C21_Witness ==
    /\ callee = "filter_articles" /\ ret # <<>>
    /\ frame.settings.allow_protocols /\ ~frame.settings.allow_pediatric
    /\ Len(frame.articles) = 2
    /\ ProtocolText(frame.articles[1])
    /\ PediatricText(frame.articles[2])
    /\ frame.filtered_articles = <<frame.articles[1]>>

----------------------------------------------------------------------------
(* step1/cli.py:210-219 with select.py, one access of the history store    *)
(* per step.  frame.store_ops is the sequence of calls of                  *)
(* load_selection_history ("read") and save_selection_history ("write")    *)
(* the run has made; select_history and record_history are the local       *)
(* `history` of select_top_article and of record_selected_article.         *)

\* the mutant of RecordLoad: record_selected_article appends to the list
\* that select_top_article loaded
RecordLoadHeld(file, fault, held) == [history |-> held, ops |-> <<>>]

\* select.py:119  history = load_selection_history()
RecordLoad(file, fault, held) ==
    [history |-> load_selection_history(file, fault), ops |-> <<"read">>]

\* candidate lists of one score: which accesses are made does not depend
\* on the ranking
EvenLists ==
    UNION {[1..n -> {a \in Article : a.score = <<1>>}] : n \in 0..MaxArticles}

AccessInit ==
    /\ ResIdle
    /\ articles \in EvenLists
    /\ avoid_history \in BOOLEAN
    /\ history_file \in FileStates
    /\ io_faults = TRUE
    /\ cli_pc = "select"
    /\ selection_result = ResultNone
    /\ chosen = [i \in DOMAIN articles |-> 0]
    /\ runs = 0
    /\ callee = "fetch"
    /\ frame = [select_history |-> EmptyList, record_history |-> EmptyList,
                store_ops |-> <<>>]
    /\ ret = <<>>

\* select.py:80-84
AccessSelectLoad ==
    /\ callee = "fetch" /\ cli_pc = "select"
    /\ IF articles = <<>>
       THEN /\ cli_pc' = "exit"
            /\ selection_result' = ResultNone
            /\ runs' = runs + 1
            /\ frame' = frame
       ELSE /\ cli_pc' = "pick"
            /\ UNCHANGED <<selection_result, runs>>
            /\ IF avoid_history
               THEN \E fault \in Faults :
                      frame' = [frame EXCEPT
                          !.select_history = load_selection_history(history_file, fault),
                          !.store_ops = Append(@, "read")]
               ELSE frame' = frame
    /\ UNCHANGED <<articles, avoid_history, history_file, io_faults, chosen>>
    /\ UNCHANGED <<callee, ret, resvars>>

\* select.py:86-109 and cli.py:212-216
AccessSelectPick ==
    /\ callee = "fetch" /\ cli_pc = "pick"
    /\ \E r \in {IF avoid_history
                 THEN FirstNotSelected(articles, sorted_articles(articles),
                                       frame.select_history, 1)
                 ELSE Pair(articles, sorted_articles(articles)[1], FALSE)} :
         /\ selection_result' = r
         /\ cli_pc' = IF r.kind = "raise" THEN "crashed" ELSE "record"
         /\ chosen' = IF r.kind = "pair"
                      THEN [chosen EXCEPT ![r.idx] = @ + 1] ELSE chosen
    /\ runs' = runs + 1
    /\ UNCHANGED <<articles, avoid_history, history_file, io_faults>>
    /\ UNCHANGED <<fnvars, resvars>>

\* select.py:119-133
AccessRecordLoad ==
    /\ callee = "fetch" /\ cli_pc = "record"
    /\ \E fault \in Faults :
         \E l \in {RecordLoad(history_file, fault, frame.select_history)} :
            /\ frame' = [frame EXCEPT !.record_history = l.history,
                                      !.store_ops = @ \o l.ops]
            /\ cli_pc' = IF l.history.kind # "list" THEN "crashed" ELSE "save"
    /\ UNCHANGED <<articles, avoid_history, history_file, io_faults,
                   selection_result, chosen, runs>>
    /\ UNCHANGED <<callee, ret, resvars>>

\* select.py:133-136
AccessRecordSave ==
    /\ callee = "fetch" /\ cli_pc = "save"
    /\ \E outcome \in SaveOutcomes :
         history_file' = save_selection_history(history_file,
             JsonList(Append(frame.record_history.items,
                             HistoryEntry(articles[selection_result.idx]))),
             outcome)
    /\ frame' = [frame EXCEPT !.store_ops = Append(@, "write")]
    /\ cli_pc' = "done"
    /\ UNCHANGED <<articles, avoid_history, io_faults, selection_result, chosen, runs>>
    /\ UNCHANGED <<callee, ret, resvars>>

AccessNext ==
    AccessSelectLoad \/ AccessSelectPick \/ AccessRecordLoad \/ AccessRecordSave

SpecAccess == AccessInit /\ [][AccessNext]_vars

\* C22 (as claimed): a run that selected with avoid_history made exactly one
\* read of the store and then exactly one write.
C22_OneReadOneWrite ==
    (callee = "fetch" /\ avoid_history /\ cli_pc = "done") =>
        frame.store_ops = <<"read", "write">>

\* what a completed run has done to the store
StoreOpsOfRun == IF avoid_history THEN <<"read", "read", "write">>
                 ELSE <<"read", "write">>

\* C22 (amended): a run that selected with avoid_history reads the store
\* twice, in select_top_article and again in record_selected_article, and
\* then writes once.  With avoid_history false there is one read, the one of
\* record_selected_article, before the write.
C22_ReadsThenOneWrite ==
    callee = "fetch" =>
        /\ IsPrefix(frame.store_ops, StoreOpsOfRun)
        /\ cli_pc = "done" => frame.store_ops = StoreOpsOfRun
        /\ cli_pc = "save" => Append(frame.store_ops, "write") = StoreOpsOfRun

\* a run with avoid_history has written; its two reads gave different lists
\* and the entries of the second one are in the store
C22_Witness ==
    /\ callee = "fetch" /\ avoid_history /\ cli_pc = "done"
    /\ frame.store_ops = <<"read", "read", "write">>
    /\ frame.select_history # frame.record_history
    /\ frame.record_history.items # <<>>
    /\ history_file.state = "json"
    /\ Len(history_file.json.items) = Len(frame.record_history.items) + 1

----------------------------------------------------------------------------
(* step2/fetch_fulltext.py: _fetch_europe_pmc and _fetch_crossref called   *)
(* on a network that answers each URL the same way during the call.        *)
(* frame.net is that network: the answer of the API and, per URL, the      *)
(* answer of the page behind it.                                           *)

StageUrls == {"u1", "u2"}

\* the fullTextUrl entries of a search result
StageLink ==
    [documentType : {"pdf", "html"}, url : StageUrls]
    \cup {[documentType |-> "other", url |-> "u1"], [documentType |-> "pdf", url |-> ""]}

StageLinkLists == UNION {[1..n -> StageLink] : n \in 0..MaxLinks}

PageResponses ==
    {NetError, [exc |-> FALSE, status |-> 404, ctype |-> {"text/html"}]}
    \cup {[exc |-> FALSE, status |-> 200, ctype |-> ct] : ct \in SUBSET MediaTypes}

StageNoData == [found |-> FALSE, pmcid |-> "", links |-> <<>>, url |-> ""]

\* the API answers: failures, and the data each stage reads from the JSON
StageApiResponses(callee_name) ==
    {[exc |-> TRUE, status |-> 0, json |-> "malformed", data |-> StageNoData],
     [exc |-> FALSE, status |-> 404, json |-> "malformed", data |-> StageNoData],
     [exc |-> FALSE, status |-> 200, json |-> "malformed", data |-> StageNoData],
     [exc |-> FALSE, status |-> 200, json |-> "ok", data |-> StageNoData]}
    \cup
    IF callee_name = "_fetch_europe_pmc"
    THEN {[exc |-> FALSE, status |-> 200, json |-> "ok",
           data |-> [found |-> TRUE, pmcid |-> p, links |-> l, url |-> ""]] :
             p \in {"", "PMC1"}, l \in StageLinkLists}
    ELSE {[exc |-> FALSE, status |-> 200, json |-> "ok",
           data |-> [found |-> TRUE, pmcid |-> "", links |-> <<>>, url |-> u]] :
             u \in StageUrls}

\* what the nested call of _fetch_pmc (line 247) can return
PmcResults ==
    {Absent,
     Result("pmc", {"route", "pmcid", "oa_pdf_url", "pdf_bytes"}, ""),
     Result("pmc", {"route", "pmcid", "html"}, "response.text")}

StageInit ==
    /\ SelIdle /\ ResIdle
    /\ callee \in {"_fetch_europe_pmc", "_fetch_crossref"}
    /\ \E api \in StageApiResponses(callee), page \in [StageUrls -> PageResponses] :
         frame = [net |-> [api |-> api, page |-> page],
                  pc |-> "api", pmcid |-> "", full_text_links |-> <<>>, i |-> 1,
                  publisher_url |-> ""]
    /\ ret = <<>>

StageReturn(v) ==
    /\ ret' = <<v>>
    /\ frame' = [frame EXCEPT !.pc = "returned"]

\* fetch_fulltext.py:190-219 (the caller passes a doi or a pmid)
EuropeSearch ==
    /\ callee = "_fetch_europe_pmc" /\ frame.pc = "api"
    /\ LET response == frame.net.api
           made == _make_request(response, "", 0)
       IN  IF ~Ok200(made, response) THEN StageReturn(Absent)
           ELSE IF response.json # "ok" THEN StageReturn(Absent)   \* caught at 248
           ELSE IF ~response.data.found THEN StageReturn(Absent)
           ELSE /\ frame' = [frame EXCEPT !.pc = "links",
                                          !.pmcid = response.data.pmcid,
                                          !.full_text_links = response.data.links]
                /\ ret' = ret
    /\ UNCHANGED <<callee, selvars, resvars>>

\* fetch_fulltext.py:220-243, one iteration of the loop over the links
EuropeLink ==
    /\ callee = "_fetch_europe_pmc" /\ frame.pc = "links"
    /\ frame.i <= Len(frame.full_text_links)
    /\ LET link == frame.full_text_links[frame.i]
           expected == IF link.documentType = "pdf" THEN "application/pdf" ELSE "text/html"
       IN  IF link.documentType \in {"pdf", "html"} /\ link.url # ""
              /\ Ok200(_make_request(frame.net.page[link.url], expected, 0),
                       frame.net.page[link.url])
           THEN IF link.documentType = "pdf"
                THEN StageReturn(Result("europempc",
                                        {"route", "pmcid", "oa_pdf_url", "pdf_bytes"}, ""))
                ELSE StageReturn(Result("europempc", {"route", "pmcid", "html"},
                                        "response.text"))
           ELSE /\ frame' = [frame EXCEPT !.i = @ + 1]
                /\ ret' = ret
    /\ UNCHANGED <<callee, selvars, resvars>>

\* fetch_fulltext.py:245-252
EuropeAfterLinks ==
    /\ callee = "_fetch_europe_pmc" /\ frame.pc = "links"
    /\ frame.i > Len(frame.full_text_links)
    /\ IF frame.pmcid # ""
       THEN \E v \in PmcResults : StageReturn(v)
       ELSE StageReturn(Absent)
    /\ UNCHANGED <<callee, selvars, resvars>>

\* fetch_fulltext.py:262-272
CrossrefLookup ==
    /\ callee = "_fetch_crossref" /\ frame.pc = "api"
    /\ LET response == frame.net.api
           made == _make_request(response, "", 0)
       IN  IF ~Ok200(made, response) THEN StageReturn(Absent)
           ELSE IF response.json # "ok" THEN StageReturn(Absent)   \* caught at 290
           ELSE IF response.data.url = "" THEN StageReturn(Absent)
           ELSE /\ frame' = [frame EXCEPT !.pc = "page",
                                          !.publisher_url = response.data.url]
                /\ ret' = ret
    /\ UNCHANGED <<callee, selvars, resvars>>

\* fetch_fulltext.py:273-294
CrossrefLanding ==
    /\ callee = "_fetch_crossref" /\ frame.pc = "page"
    /\ LET html_response == frame.net.page[frame.publisher_url]
           made == _make_request(html_response, "text/html", 0)
       IN  IF Ok200(made, html_response)
           THEN IF "application/pdf" \in html_response.ctype
                THEN StageReturn(Result("publisher",
                                        {"route", "publisher_url", "pdf_bytes"}, ""))
                ELSE StageReturn(Result("publisher", {"route", "publisher_url", "html"},
                                        "response.text"))
           ELSE StageReturn(Absent)
    /\ UNCHANGED <<callee, selvars, resvars>>

StageNext ==
    \/ EuropeSearch \/ EuropeLink \/ EuropeAfterLinks
    \/ CrossrefLookup \/ CrossrefLanding

SpecStage == StageInit /\ [][StageNext]_vars

\* requests.get(url) answers 200 with a content type containing `media`
Fetchable(url, media) ==
    /\ url # ""
    /\ ~frame.net.page[url].exc
    /\ frame.net.page[url].status = 200
    /\ media \in frame.net.page[url].ctype

\* C23 (as claimed): when the link list holds a pdf link and an html link
\* that can both be fetched, _fetch_europe_pmc returns the binary payload,
\* whatever the order of the links.
C23_BinaryPreferred ==
    (/\ callee = "_fetch_europe_pmc" /\ ret # <<>>
     /\ \E k, l \in DOMAIN frame.full_text_links :
          /\ frame.full_text_links[k].documentType = "pdf"
          /\ Fetchable(frame.full_text_links[k].url, "application/pdf")
          /\ frame.full_text_links[l].documentType = "html"
          /\ Fetchable(frame.full_text_links[l].url, "text/html"))
    => "pdf_bytes" \in ret[1].fields

\* C24 (as claimed): when the landing page answers 200, _fetch_crossref
\* returns route "publisher"; with the binary payload when the page is
\* declared application/pdf, with the HTML payload when it is declared
\* text/html.
C24_BranchOnContentType ==
    (/\ callee = "_fetch_crossref" /\ ret # <<>> /\ frame.publisher_url # ""
     /\ ~frame.net.page[frame.publisher_url].exc
     /\ frame.net.page[frame.publisher_url].status = 200)
    => /\ ret[1].route = "publisher"
       /\ frame.net.page[frame.publisher_url].ctype = {"application/pdf"}
             => "pdf_bytes" \in ret[1].fields
       /\ frame.net.page[frame.publisher_url].ctype = {"text/html"}
             => "html" \in ret[1].fields

----------------------------------------------------------------------------
(* Properties of the line scan of _section_pdf_content                     *)

\* the k-th scanned line is a header, as the scan decides it
IsHeaderLine(text_lines, k) ==
    strip(text_lines[k]) # "" /\ _map_section_headers(strip(text_lines[k])) # ""

\* the k-th scanned line is a body line
IsBodyLine(text_lines, k) ==
    strip(text_lines[k]) # "" /\ _map_section_headers(strip(text_lines[k])) = ""

\* the section of the most recent header among the first k lines
RECURSIVE SectionAfter(_, _)
SectionAfter(text_lines, k) ==
    IF k = 0 THEN "abstract"
    ELSE IF IsHeaderLine(text_lines, k) THEN _map_section_headers(strip(text_lines[k]))
    ELSE SectionAfter(text_lines, k - 1)

\* C25 (as claimed): the returned sections lose no body line: every
\* non-empty line that is not a header is in the text of the section of the
\* most recent preceding header ("abstract" if none) and in the text of no
\* other section, also when a section is entered more than once.
C25_NoBodyLineLost ==
    (callee = "_section_pdf_content" /\ ret # <<>>) =>
        \A k \in DOMAIN frame.text_lines :
            IsBodyLine(frame.text_lines, k) =>
                /\ Contains(ret[1][SectionAfter(frame.text_lines, k)],
                            strip(frame.text_lines[k]))
                /\ \A s \in DOMAIN ret[1] :
                     Contains(ret[1][s], strip(frame.text_lines[k])) =>
                        \E l \in DOMAIN frame.text_lines :
                            /\ IsBodyLine(frame.text_lines, l)
                            /\ SectionAfter(frame.text_lines, l) = s
                            /\ Contains(strip(frame.text_lines[l]),
                                        strip(frame.text_lines[k]))

----------------------------------------------------------------------------
(* step2/text_clean.py: _section_html_content.  The input is the visible   *)
(* text of the main content, one string per line of text that get_text()   *)
(* yields (frame.visible_lines).                                           *)

MaxVisible == 4      \* most lines of visible text in the main content

\* re.sub(r'\s+', ' ', text) on text[a..b]: every run of white space
\* becomes one space
RECURSIVE CollapseSpan(_, _, _)
CollapseSpan(text, a, b) ==
    IF a > b THEN ""
    ELSE IF a = b
    THEN IF ~IsSpace(Char(text, a)) THEN Char(text, a)
         ELSE IF a > 1 /\ IsSpace(Char(text, a - 1)) THEN "" ELSE " "
    ELSE CollapseSpan(text, a, (a + b) \div 2) \o CollapseSpan(text, (a + b) \div 2 + 1, b)

CollapseSpace(text) == CollapseSpan(text, 1, Len(text))

\* text_clean.py:417-424
_clean_whitespace(text) == strip(CollapseSpace(text))

\* str.split('\n')
RECURSIVE SplitLines(_)
SplitLines(text) ==
    IF \E k \in 1..Len(text) : Char(text, k) = "\n"
    THEN LET first == CHOOSE k \in 1..Len(text) :
                         /\ Char(text, k) = "\n"
                         /\ \A l \in 1..(k - 1) : Char(text, l) # "\n"
         IN  <<SubSeq(text, 1, first - 1)>> \o SplitLines(SubSeq(text, first + 1, Len(text)))
    ELSE <<text>>

VisibleLines == {"Methods", "We enrolled 40.", "Results", "Pain fell.", ""}

HtmlInit ==
    /\ SelIdle /\ ResIdle
    /\ callee = "_section_html_content"
    /\ \E visible_lines \in UNION {[1..n -> VisibleLines] : n \in 1..MaxVisible} :
         frame = [visible_lines |-> visible_lines, pc |-> "extract",
                  text_lines |-> <<>>, i |-> 1, sections |-> EmptySections,
                  current_section |-> "abstract", current_content |-> <<>>]
    /\ ret = <<>>

\* text_clean.py:237-257: _extract_main_content ends in _clean_html, which
\* returns _clean_whitespace(soup.get_text()) (lines 198-201, 227)
HtmlExtract ==
    /\ callee = "_section_html_content" /\ frame.pc = "extract"
    /\ frame' = [frame EXCEPT
          !.text_lines = SplitLines(_clean_whitespace(Join(frame.visible_lines, "\n"))),
          !.pc = "scan"]
    /\ UNCHANGED <<callee, ret, selvars, resvars>>

\* text_clean.py:259-272, one iteration of the loop
HtmlLine ==
    /\ callee = "_section_html_content" /\ frame.pc = "scan" /\ ret = <<>>
    /\ frame.i <= Len(frame.text_lines)
    /\ \E line \in {frame.text_lines[frame.i]} :
         \E header_match \in {_map_section_headers(strip(line))} :
            IF header_match # ""
            THEN frame' = [frame EXCEPT
                   !.i = @ + 1,
                   !.sections = IF frame.current_content # <<>>
                                THEN [@ EXCEPT ![frame.current_section] =
                                        strip(Join(frame.current_content, "\n"))]
                                ELSE @,
                   !.current_content = <<>>,
                   !.current_section = header_match]
            ELSE frame' = [frame EXCEPT !.i = @ + 1,
                                        !.current_content = Append(@, line)]
    /\ UNCHANGED <<callee, ret, selvars, resvars>>

\* text_clean.py:274-278
HtmlReturn ==
    /\ callee = "_section_html_content" /\ frame.pc = "scan" /\ ret = <<>>
    /\ frame.i > Len(frame.text_lines)
    /\ ret' = << IF frame.current_content # <<>>
                 THEN [frame.sections EXCEPT ![frame.current_section] =
                         strip(Join(frame.current_content, "\n"))]
                 ELSE frame.sections >>
    /\ UNCHANGED <<callee, frame, selvars, resvars>>

HtmlNext == HtmlExtract \/ HtmlLine \/ HtmlReturn

SpecHtml == HtmlInit /\ [][HtmlNext]_vars

\* the visible lines that are headers
HeaderLines(visible_lines) ==
    {k \in DOMAIN visible_lines : IsHeaderLine(visible_lines, k)}

\* C26 (as claimed): when the visible main content has headers of two or
\* more sections, each on its own line and each followed by a body line, the
\* returned section of each of those headers is not empty.
C26_HtmlSectioned ==
    (/\ callee = "_section_html_content" /\ ret # <<>>
     /\ Cardinality({_map_section_headers(strip(frame.visible_lines[k])) :
                        k \in HeaderLines(frame.visible_lines)}) >= 2
     /\ \A k \in HeaderLines(frame.visible_lines) :
          /\ k + 1 \in DOMAIN frame.visible_lines
          /\ IsBodyLine(frame.visible_lines, k + 1))
    => \A k \in HeaderLines(frame.visible_lines) :
          ret[1][_map_section_headers(strip(frame.visible_lines[k]))] # ""

----------------------------------------------------------------------------
(* Properties of _select_excerpts_from_section                             *)

\* the estimate of the first k paragraphs of the scored list together
RECURSIVE TokensOfFirst(_, _)
TokensOfFirst(scored, k) ==
    IF k = 0 THEN 0
    ELSE TokensOfFirst(scored, k - 1) + _estimate_tokens(scored[k].paragraph)

\* scored lists the paragraphs by descending score, equal scores in the
\* order of the text
InSelectionOrder(scored, paragraphs) ==
    /\ Len(scored) = Len(paragraphs)
    /\ \E f \in [DOMAIN scored -> DOMAIN paragraphs] :
         /\ \A k, l \in DOMAIN scored : k # l => f[k] # f[l]
         /\ \A k \in DOMAIN scored :
              /\ scored[k].paragraph = paragraphs[f[k]]
              /\ scored[k].score = ParagraphScore(paragraphs[f[k]])
         /\ \A k, l \in DOMAIN scored :
              k < l => \/ scored[k].score > scored[l].score
                       \/ scored[k].score = scored[l].score /\ f[k] < f[l]

\* the loop over the scored paragraphs of the current section has ended
SelectionEnded ==
    /\ callee = "select_excerpts_for_prompt"
    /\ \/ frame.pc = "join"
       \/ frame.pc = "select" /\ frame.j > Len(frame.scored_paragraphs)

\* the number of paragraphs selected whole
Whole ==
    IF frame.truncated_paragraph # "" THEN Len(frame.selected_paragraphs) - 1
    ELSE Len(frame.selected_paragraphs)

\* C27: the paragraphs are taken by descending score, ties in the order of
\* the text; each is accepted whole while the running estimate stays within
\* the allotment; at the first that does not fit, a truncated prefix of it
\* is appended exactly when more than 10 tokens remain, and nothing after it
\* is selected; the excerpt is the selection joined in selection order.
C27_GreedySelection ==
    /\ [](SelectionEnded =>
          LET scored == frame.scored_paragraphs
              selected == frame.selected_paragraphs
              remaining == allocated_tokens - TokensOfFirst(scored, Whole)
          IN  /\ InSelectionOrder(scored, Split(frame.sectioned_text[section_name], "\n\n"))
              /\ Whole <= Len(scored) /\ Len(selected) <= Whole + 1
              /\ \A k \in 1..Whole :
                   /\ selected[k] = scored[k].paragraph
                   /\ TokensOfFirst(scored, k) <= allocated_tokens
              /\ Whole = Len(scored) => Len(selected) = Whole
              /\ Whole < Len(scored) =>
                   /\ TokensOfFirst(scored, Whole + 1) > allocated_tokens
                   /\ Len(selected) = Whole + 1 <=> remaining > 10
                   /\ Len(selected) = Whole + 1 =>
                        selected[Whole + 1] =
                           SubSeq(scored[Whole + 1].paragraph, 1, remaining * 4) \o "...")
    /\ [][(SelectionEnded /\ frame'.section = frame.section + 1) =>
            frame'.excerpted_text[section_name] =
               Join(frame.selected_paragraphs, "\n\n")]_vars

\* a section whose highest-scored paragraph is not its first: that one was
\* accepted whole, the next was truncated because more than 10 tokens
\* remained, and a paragraph after it was left out
C27_Witness ==
    /\ SelectionEnded
    /\ frame.truncated_paragraph # ""
    /\ Whole = 1
    /\ Len(frame.scored_paragraphs) = 3
    /\ frame.scored_paragraphs[1].paragraph #
          Split(frame.sectioned_text[section_name], "\n\n")[1]

----------------------------------------------------------------------------
(* step2/analyze.py: _detect_red_flags on records of the schema's types    *)

\* point estimate and confidence bounds, in thousandths
Estimates ==
    {<<800, 500, 1200>>, <<800, 500, 1400>>, <<200, 500, 1200>>,
     <<0, -100, 100>>, <<-800, -1400, -500>>, <<-500, -1100, -100>>}

PValues == {NoKey, Null, Num(44), Num(45), Num(60), Num(61)}

\* records that pass validation, with values on both sides of every rule
TypedCards ==
    [title : {Str("T")},
     sample_size : {Null, Num(99), Num(100)},
     effect_estimate :
        {NoEffect("null", ""),
         Effect(Num(800), [kind |-> "list", items |-> <<Num(500)>>], Num(50))}
        \cup {Effect(Num(e[1]), Interval(e[2], e[3]), pv) : e \in Estimates, pv \in PValues},
     primary_outcome : {Str("pain"), Str("  ")},
     population : {Str("Adults"), Str("Specific adults"), Str("Single specific cohort")},
     centers : {Null, Str("Single center")},
     funding : {Null, Str("Industry grant")},
     allocation : {Null, Str("sealed envelopes")},
     blinding : {Str(""), Str("double")}]

FlagsInit ==
    /\ SelIdle /\ ResIdle
    /\ callee = "_detect_red_flags"
    /\ \E article \in TypedCards : frame = [article |-> article]
    /\ ret = <<>>

\* analyze.py:124-186
DetectRedFlags ==
    /\ callee = "_detect_red_flags" /\ ret = <<>>
    /\ ret' = <<_detect_red_flags(frame.article)>>
    /\ UNCHANGED <<callee, frame, selvars, resvars>>

SpecFlags == FlagsInit /\ [][DetectRedFlags]_vars

Occurs(flags, text) == \E k \in DOMAIN flags : flags[k] = text

\* the record has an effect estimate with a point estimate and two bounds
TwoBoundEstimate(article) ==
    /\ article.effect_estimate.kind = "dict"
    /\ article.effect_estimate.value.kind = "num"
    /\ article.effect_estimate.ci.kind = "list"
    /\ Len(article.effect_estimate.ci.items) = 2

\* C28 (as claimed): the imprecise-effect flag is emitted exactly when the
\* record has an effect estimate with a two-bound interval whose half-width
\* |high - low| / 2 exceeds the absolute value of the point estimate.
C28_HalfWidthRule ==
    (callee = "_detect_red_flags" /\ ret # <<>>) =>
        (Occurs(ret[1].flags, "Imprecise effect: wide confidence interval")
         <=> /\ TwoBoundEstimate(frame.article)
             /\ Abs(frame.article.effect_estimate.ci.items[2].num
                    - frame.article.effect_estimate.ci.items[1].num)
                > 2 * Abs(frame.article.effect_estimate.value.num))

\* what each rule tests, read off the fields of a typed record
RuleHolds(article) ==
    LET e == article.effect_estimate
        population == lower(article.population.text)
        centers == IF article.centers.kind = "str" THEN lower(article.centers.text) ELSE ""
        funding == IF article.funding.kind = "str" THEN lower(article.funding.text) ELSE ""
    IN  [underpowered |-> article.sample_size.kind = "num" /\ article.sample_size.num < 100,
         imprecise |-> /\ TwoBoundEstimate(article)
                       /\ e.value.num # 0
                       /\ Abs(e.ci.items[2].num - e.ci.items[1].num) > Abs(e.value.num),
         borderline |-> /\ e.kind = "dict" /\ e.p.kind = "num"
                        /\ e.p.num \in 45..60,
         multiplicity |-> strip(article.primary_outcome.text) = "",
         no_allocation |-> article.allocation.kind = "null" \/ article.allocation.text = "",
         no_blinding |-> article.blinding.kind = "null" \/ article.blinding.text = "",
         external |-> /\ Contains(centers, "single") \/ Contains(population, "single")
                      /\ Contains(population, "specific"),
         funding |-> Contains(funding, "industry") \/ Contains(funding, "commercial")]

If(condition, text) == IF condition THEN <<text>> ELSE <<>>

\* C29: every structured rule adds its flag exactly when its own condition
\* holds, whatever the other rules do, and at most once; the flags come in
\* the order underpowered, imprecise effect, borderline p (0.045 <= p <= 0.06),
\* multiplicity, design opacity, external validity, funding; a record
\* missing both the allocation-concealment and the blinding description gets
\* one design-opacity flag naming both, a record missing one gets one flag
\* naming only that one.
C29_IndependentOrderedRules ==
    (callee = "_detect_red_flags" /\ ret # <<>>) =>
        LET h == RuleHolds(frame.article)
        IN  /\ ~ret[1].raises
            /\ ret[1].flags =
                  If(h.underpowered, "Underpowered signal: sample size < 100 for superiority trial")
               \o If(h.imprecise, "Imprecise effect: wide confidence interval")
               \o If(h.borderline, "Borderline p-value: fragile significance")
               \o If(h.multiplicity, "Multiplicity/selective reporting risk: primary outcome unclear")
               \o If(h.no_allocation /\ h.no_blinding,
                     "Design opacity: missing allocation concealment, blinding")
               \o If(h.no_allocation /\ ~h.no_blinding,
                     "Design opacity: missing allocation concealment")
               \o If(~h.no_allocation /\ h.no_blinding, "Design opacity: missing blinding")
               \o If(h.external, "External validity concern: narrow population")
               \o If(h.funding, "Potential bias: industry funding declared")

\* all seven rules fired on one record: p = 0.06, both descriptions missing
C29_Witness ==
    /\ callee = "_detect_red_flags" /\ ret # <<>>
    /\ frame.article.effect_estimate.kind = "dict"
    /\ frame.article.effect_estimate.p = Num(60)
    /\ Len(ret[1].flags) = 7
    /\ ret[1].flags[3] = "Borderline p-value: fragile significance"
    /\ ret[1].flags[5] = "Design opacity: missing allocation concealment, blinding"

----------------------------------------------------------------------------
(* step2/text_clean.py: detect_content_red_flags                           *)

\* str.count(sub): occurrences of sub found from left to right, not overlapping
RECURSIVE CountFrom(_, _, _)
CountFrom(text, sub, k) ==
    IF k + Len(sub) - 1 > Len(text) THEN 0
    ELSE IF SubSeq(text, k, k + Len(sub) - 1) = sub
    THEN 1 + CountFrom(text, sub, k + Len(sub))
    ELSE CountFrom(text, sub, k + 1)

count(text, sub) == CountFrom(text, sub, 1)

\* sectioned_text.get(key, "")
SectionGet(sectioned_text, key) ==
    IF key \in DOMAIN sectioned_text THEN sectioned_text[key] ELSE ""

\* the mutant of OutcomesRule: three mentions are enough
OutcomesRuleFromThree(results_text) ==
    IF count(results_text, "outcome") >= 3 /\ ~Contains(results_text, "primary outcome")
    THEN <<"Multiple outcomes reported without clear primary outcome designation">>
    ELSE <<>>

\* text_clean.py:152-154
OutcomesRule(results_text) ==
    IF count(results_text, "outcome") > 3 /\ ~Contains(results_text, "primary outcome")
    THEN <<"Multiple outcomes reported without clear primary outcome designation">>
    ELSE <<>>

\* text_clean.py:125-159
detect_content_red_flags(sectioned_text) ==
    LET methods_text == lower(SectionGet(sectioned_text, "methods"))
        results_text == lower(SectionGet(sectioned_text, "results"))
    IN  (IF ~Contains(methods_text, "allocation") /\ Contains(methods_text, "random")
         THEN <<"Missing CONSORT element: allocation concealment not mentioned">>
         ELSE <<>>)
        \o (IF ~Contains(methods_text, "blinding") /\ ~Contains(methods_text, "masking")
            THEN <<"Missing CONSORT element: blinding procedures not described">>
            ELSE <<>>)
        \o (IF Contains(methods_text, "small sample")
               /\ Contains(results_text, "precise estimate")
            THEN <<"Potential inconsistency: small sample size with precise estimates claimed">>
            ELSE <<>>)
        \o OutcomesRule(results_text)
        \o (IF Contains(results_text, "subgroup") /\ ~Contains(results_text, "predefined")
               /\ ~Contains(results_text, "a priori")
            THEN <<"Subgroup analyses presented without stated a priori plan">>
            ELSE <<>>)

\* a text made of the chosen phrases, in order
RECURSIVE Phrases(_, _)
Phrases(all, picked) ==
    IF all = <<>> THEN ""
    ELSE (IF Head(all) \in picked THEN Head(all) ELSE "") \o Phrases(Tail(all), picked)

MethodsPhrases == <<"Randomized. ", "Allocation. ", "Blinding. ", "Masking. ", "Small sample.">>

ResultsPhrases == <<"primary outcome ", "Subgroup ", "predefined ", "a priori ", "Precise estimate">>

MethodsTexts == {Phrases(MethodsPhrases, picked) : picked \in SUBSET {MethodsPhrases[k] : k \in DOMAIN MethodsPhrases}}

ResultsTexts ==
    {mentions \o Phrases(ResultsPhrases, picked) :
        mentions \in {"", "Outcome outcome outcome ", "Outcome outcome outcome outcome "},
        picked \in SUBSET {ResultsPhrases[k] : k \in DOMAIN ResultsPhrases}}

\* sectioned texts with both keys, and ones that lack "methods"
SectionedTexts ==
    [methods : MethodsTexts, results : ResultsTexts] \cup [results : ResultsTexts]

ContentInit ==
    /\ SelIdle /\ ResIdle
    /\ callee = "detect_content_red_flags"
    /\ \E sectioned_text \in SectionedTexts : frame = [sectioned_text |-> sectioned_text]
    /\ ret = <<>>

\* text_clean.py:125-159
DetectContentRedFlags ==
    /\ callee = "detect_content_red_flags" /\ ret = <<>>
    /\ ret' = <<detect_content_red_flags(frame.sectioned_text)>>
    /\ UNCHANGED <<callee, frame, selvars, resvars>>

SpecContent == ContentInit /\ [][DetectContentRedFlags]_vars

\* how often a word is mentioned in a text, whatever the case of its letters
Mentions(text, word) ==
    LET small == lower(text)
    IN  Cardinality({k \in 1..(Len(text) - Len(word) + 1) :
                        SubSeq(small, k, k + Len(word) - 1) = word})

\* the four conditions of the text rules, on the sections of the input
TextRuleHolds(sectioned_text) ==
    LET methods == SectionGet(sectioned_text, "methods")
        results == SectionGet(sectioned_text, "results")
    IN  [allocation |-> Mentions(methods, "random") > 0 /\ Mentions(methods, "allocation") = 0,
         blinding |-> Mentions(methods, "blinding") = 0 /\ Mentions(methods, "masking") = 0,
         inconsistency |-> /\ Mentions(methods, "small sample") > 0
                           /\ Mentions(results, "precise estimate") > 0,
         outcomes |-> Mentions(results, "outcome") > 3 /\ Mentions(results, "primary outcome") = 0,
         subgroup |-> /\ Mentions(results, "subgroup") > 0
                      /\ Mentions(results, "predefined") = 0
                      /\ Mentions(results, "a priori") = 0]

\* C30 (as claimed): detect_content_red_flags returns, in rule order, one flag
\* for each of the four text rules whose condition holds and no other flag.
C30_FourTextRules ==
    (callee = "detect_content_red_flags" /\ ret # <<>>) =>
        LET h == TextRuleHolds(frame.sectioned_text)
        IN  ret[1] =
                  If(h.allocation, "Missing CONSORT element: allocation concealment not mentioned")
               \o If(h.blinding, "Missing CONSORT element: blinding procedures not described")
               \o If(h.outcomes, "Multiple outcomes reported without clear primary outcome designation")
               \o If(h.subgroup, "Subgroup analyses presented without stated a priori plan")

\* C30 (amended): detect_content_red_flags returns, in rule order, one flag
\* for each of five text rules whose condition holds and no other flag: the
\* four rules of the claim and, between the blinding rule and the outcomes
\* rule, a rule that flags a methods text mentioning "small sample" together
\* with a results text mentioning "precise estimate"; a missing or empty
\* methods text always yields the blinding flag.
C30_FiveTextRules ==
    (callee = "detect_content_red_flags" /\ ret # <<>>) =>
        LET h == TextRuleHolds(frame.sectioned_text)
        IN  /\ ret[1] =
                  If(h.allocation, "Missing CONSORT element: allocation concealment not mentioned")
               \o If(h.blinding, "Missing CONSORT element: blinding procedures not described")
               \o If(h.inconsistency,
                     "Potential inconsistency: small sample size with precise estimates claimed")
               \o If(h.outcomes, "Multiple outcomes reported without clear primary outcome designation")
               \o If(h.subgroup, "Subgroup analyses presented without stated a priori plan")
            /\ SectionGet(frame.sectioned_text, "methods") = ""
                  => Occurs(ret[1], "Missing CONSORT element: blinding procedures not described")

\* all five rules fired: four mentions of "outcome", no primary outcome
C30_Witness ==
    /\ callee = "detect_content_red_flags" /\ ret # <<>>
    /\ count(lower(frame.sectioned_text.results), "outcome") = 4
    /\ Len(ret[1]) = 5
    /\ ret[1][3] = "Potential inconsistency: small sample size with precise estimates claimed"
    /\ ret[1][4] = "Multiple outcomes reported without clear primary outcome designation"

====
